---- MODULE Spec2Model ----
(***************************************************************************)
(* A model of the tide-search driver of crux-toolkit                       *)
(* (src/app/TideSearchApplication.cpp): the thread-count set-up of main,   *)
(* the isotope-error parser, the precursor-window computation, the         *)
(* multi-threaded scan loop over the spec-charge list and the score-count  *)
(* table of the exact p-value, of the spectrum preprocessor                *)
(* (src/app/tide/spectrum_preprocess2.cc), and of the peptide             *)
(* modifications of src/c/modifications.c.                                 *)
(*                                                                         *)
(* Twelve specifications share the module:                                 *)
(*   Spec         the scan loop, search(...) and search(threadarg)         *)
(*   SpecThreads  main's choice of NUM_THREADS                             *)
(*   SpecFiles    getInputFiles and main's loop over the spectrum files    *)
(*   SpecIso      getNegativeIsotopeErrors                                 *)
(*   SpecWin      computeWindow                                            *)
(*   SpecPre      ObservedPeakSet::PreprocessSpectrum                      *)
(*   SpecBg       SubtractBackground on arrays of one intensity            *)
(*   SpecScore    collectScoresCompiled and ObservedPeakSet::DotProd       *)
(*   SpecCount    calcScoreCount                                           *)
(*   SpecTables   the score-count tables and look-ups of one pair          *)
(*   SpecModList  generate_peptide_mod_list_TESTER                         *)
(*   SpecPepMod   peptide_mod_add_aa_mod on a fresh peptide mod            *)
(* Each one moves its own variables and leaves the others at their initial *)
(* values.                                                                 *)
(***************************************************************************)
EXTENDS Integers, Sequences, FiniteSets, Bags, TLC

(* ------------------------------------------------------------------ *)
(* Bounds of the model                                                  *)
(* ------------------------------------------------------------------ *)
\* largest NUM_THREADS explored by the scan-loop specification
MaxThreads == 2
\* longest spec-charge list explored by the scan-loop specification
MaxPairs == 2

VARIABLES
  \* ---- scan loop (Spec) ----
  NUM_THREADS,              \* TideSearchApplication::NUM_THREADS
  spec_charges,             \* the work list: index -> what the pair's checks and fetch will find
  spectrum_flag,            \* TRUE iff spectrum_flag_ != NULL (a cascade search)
  exact_pval_search,        \* exact_pval_search_
  peptide_centric,          \* Params "peptide-centric-search"
  deisotope,                \* TRUE iff Params "deisotope" != 0.0
  loop_window_type,         \* window_type of search(...), from string_to_window_type (line 277)
  skip_preprocessing,       \* Params "skip-preprocessing": the values it may have (one, once read)
  pc,                       \* thread -> position in search(...) / search(threadarg)
  sc,                       \* thread -> index of its iterator sc in spec_charges
  launched,                 \* main's loop variable t of the launch loop
  locks,                    \* lock type -> holder (a thread) or Free
  sc_index,                 \* *sc_index, the shared progress counter
  total_candidate_peptides, \* *total_candidate_peptides
  pairState,                \* index -> how far the pair got
  visits,                   \* index -> the threads whose loop body started on it, in order
  output,                   \* indices of the pairs handed to the Output Writer (TideMatchSet::report)
  aborted,                  \* TRUE once carp(CARP_FATAL) ended the process
  \* ---- main: thread-count set-up (SpecThreads), input files (SpecFiles) ----
  tcfg,
  \* ---- isotope-error parser (SpecIso) ----
  iso,
  \* ---- computeWindow (SpecWin) ----
  win,
  \* ---- the observed peak set (SpecPre, SpecBg, SpecScore) ----
  pre,
  \* ---- the exact p-value branch: calcScoreCount (SpecCount), the tables
  \* ---- of one pair (SpecTables) ----
  dp

searchVars == <<NUM_THREADS, spec_charges, spectrum_flag, exact_pval_search,
                peptide_centric, deisotope, loop_window_type, skip_preprocessing, pc, sc, launched,
                locks, sc_index, total_candidate_peptides, pairState, visits,
                output, aborted>>
vars == <<searchVars, tcfg, iso, win, pre, dp>>
\* what the scan loop reads and never writes: the run's parameters, and the
\* variables of the other specifications
fixed == <<NUM_THREADS, spec_charges, spectrum_flag, exact_pval_search,
           peptide_centric, deisotope, loop_window_type, tcfg, iso, win, pre, dp>>

(* ------------------------------------------------------------------ *)
(* The scan loop                                                        *)
(* ------------------------------------------------------------------ *)
\* indices of locks_array
LockTypes == {"LOCK_RESULTS", "LOCK_CASCADE", "LOCK_CANDIDATES", "LOCK_REPORTING"}
\* a boost::mutex nobody holds
Free == -1

Threads == 0 .. (NUM_THREADS - 1)
Indices == 0 .. (Len(spec_charges) - 1)
\* spec_charges is a 1-based sequence; the code's index i is element i + 1
Pair(i) == spec_charges[i + 1]

\* What one spec-charge pair's checks will find.  flagged: the pair is in
\* *spectrum_flag; passes: it passes the filter of lines 492-495; ncand: the
\* count SetActiveRange / SetActiveRangeBIons returns for its window.
\* the candidate counts explored: an empty window and a window with two candidates
CandCounts == {0, 2}
PairKinds == [flagged : BOOLEAN, passes : BOOLEAN, ncand : CandCounts]

\* one canonical representative for the pairs that never reach the fetch
PairInputs(cascade) ==
  { p \in PairKinds :
      /\ (p.flagged => cascade)
      /\ ((p.flagged \/ ~p.passes) => p.ncand = 0)
      /\ (p.flagged => p.passes) }

RECURSIVE SeqsUpTo(_, _)
SeqsUpTo(S, n) ==
  IF n = 0 THEN {<<>>}
  ELSE LET shorter == SeqsUpTo(S, n - 1)
       IN  shorter \cup { Append(s, x) : s \in { q \in shorter : Len(q) = n - 1 }, x \in S }

\* The states of a pair: spec.md 4.4 "State machine (per spectrum-charge pair)".
\* "attached" is the end of a pair in peptide-centric mode, where the hits are
\* added to the peptides (AddHit) and search(threadarg) writes no report.
Terminal == {"flagged", "filtered", "empty", "reported", "attached"}

\* The window selectors of the scan loop.  The three modes differ only in the
\* numbers computeWindow returns, which the scan loop does not look at; one
\* of them stands for all three.
LoopWindowSelectors == {"WINDOW_MASS", "WINDOW_INVALID"}

InitSearch ==
  /\ NUM_THREADS \in 1 .. MaxThreads
  /\ spectrum_flag \in BOOLEAN
  /\ exact_pval_search \in BOOLEAN
  /\ peptide_centric \in BOOLEAN
  /\ deisotope \in BOOLEAN
  /\ loop_window_type \in LoopWindowSelectors
  /\ skip_preprocessing = BOOLEAN
  \* main, lines 58-63: peptide-centric output runs on one thread
  /\ (peptide_centric => NUM_THREADS = 1)
  \* the deisotope threshold is read by the scan loop in exact-p-value mode only
  /\ (deisotope => exact_pval_search)
  /\ spec_charges \in SeqsUpTo(PairInputs(spectrum_flag), MaxPairs)
  /\ pc = [t \in Threads |-> IF t = 0 THEN "launch" ELSE "idle"]
  /\ sc = [t \in Threads |-> 0]
  /\ launched = 1
  /\ locks = [l \in LockTypes |-> Free]
  /\ sc_index = -1
  /\ total_candidate_peptides = 0
  /\ pairState = [i \in Indices |-> "pending"]
  /\ visits = [i \in Indices |-> <<>>]
  /\ output = {}
  /\ aborted = FALSE

\* lines 465-467: thread thread_num starts at begin() + thread_num ...
FirstIndex(thread_num) == thread_num
\* a slip: the stride is one element instead of num_threads
NextIndexByOne(i, num_threads) == i + 1
\* ... and steps by num_threads (also what `continue` runs)
NextIndex(i, num_threads) == i + num_threads

\* the pair thread t's iterator points at
Cur(t) == sc[t]

\* sc = sc + num_threads, back to the loop test
Advance(t) ==
  /\ sc' = [sc EXCEPT ![t] = NextIndex(sc[t], NUM_THREADS)]
  /\ pc' = [pc EXCEPT ![t] = "loop"]

SetPair(t, st) == pairState' = [pairState EXCEPT ![Cur(t)] = st]

\* boost::mutex::lock blocks until the mutex is free
Acquire(l, t) == locks[l] = Free /\ locks' = [locks EXCEPT ![l] = t]
\* boost::mutex::unlock
Release(l) == locks' = [locks EXCEPT ![l] = Free]

\* lines 827-830: main launches threads 1 .. NUM_THREADS-1; a launched thread
\* starts search(threadarg) at line 465 with sc = begin() + thread_num
Launch ==
  /\ ~aborted /\ pc[0] = "launch" /\ launched < NUM_THREADS
  /\ pc' = [pc EXCEPT ![launched] = "loop"]
  /\ sc' = [sc EXCEPT ![launched] = FirstIndex(launched)]
  /\ launched' = launched + 1
  /\ UNCHANGED <<fixed, skip_preprocessing, locks, sc_index,
                 total_candidate_peptides, pairState, visits, output, aborted>>

\* line 833: main runs slice 0 itself
RunSlice0 ==
  /\ ~aborted /\ pc[0] = "launch" /\ launched >= NUM_THREADS
  /\ pc' = [pc EXCEPT ![0] = "loop"]
  /\ sc' = [sc EXCEPT ![0] = FirstIndex(0)]
  /\ UNCHANGED <<fixed, skip_preprocessing, launched, locks,
                 sc_index, total_candidate_peptides, pairState, visits, output, aborted>>

\* line 466, the loop test; the body starts on pair sc[t] or the loop ends
LoopTest(t) ==
  /\ ~aborted /\ pc[t] = "loop"
  /\ IF sc[t] < Len(spec_charges)
       THEN /\ visits' = [visits EXCEPT ![Cur(t)] = Append(@, t)]
            /\ pc' = [pc EXCEPT ![t] = "lockRep"]
       ELSE /\ pc' = [pc EXCEPT ![t] = "stats"]
            /\ UNCHANGED visits
  /\ UNCHANGED <<fixed, skip_preprocessing, sc, launched, locks,
                 sc_index, total_candidate_peptides, pairState, output, aborted>>

\* line 468
LockReporting(t) ==
  /\ ~aborted /\ pc[t] = "lockRep"
  /\ Acquire("LOCK_REPORTING", t)
  /\ pc' = [pc EXCEPT ![t] = "incr"]
  /\ UNCHANGED <<fixed, skip_preprocessing, sc, launched,
                 sc_index, total_candidate_peptides, pairState, visits, output, aborted>>

\* lines 469-473
IncrScIndex(t) ==
  /\ ~aborted /\ pc[t] = "incr"
  /\ sc_index' = sc_index + 1
  /\ pc' = [pc EXCEPT ![t] = "unlockRep"]
  /\ UNCHANGED <<fixed, skip_preprocessing, sc, launched, locks,
                 total_candidate_peptides, pairState, visits, output, aborted>>

\* line 474
UnlockReporting(t) ==
  /\ ~aborted /\ pc[t] = "unlockRep"
  /\ Release("LOCK_REPORTING")
  /\ pc' = [pc EXCEPT ![t] = "cascade"]
  /\ UNCHANGED <<fixed, skip_preprocessing, sc, launched,
                 sc_index, total_candidate_peptides, pairState, visits, output, aborted>>

\* lines 480-481: the cascade lookup is made only when spectrum_flag != NULL
CascadeLock(t) ==
  /\ ~aborted /\ pc[t] = "cascade"
  /\ IF spectrum_flag
       THEN /\ Acquire("LOCK_CASCADE", t)
            /\ pc' = [pc EXCEPT ![t] = "cascFind"]
       ELSE /\ pc' = [pc EXCEPT ![t] = "filter"]
            /\ UNCHANGED locks
  /\ UNCHANGED <<fixed, skip_preprocessing, sc, launched,
                 sc_index, total_candidate_peptides, pairState, visits, output, aborted>>

\* lines 482-485: spectrum_flag->find(...)
CascadeFind(t) ==
  /\ ~aborted /\ pc[t] = "cascFind"
  /\ pc' = [pc EXCEPT ![t] = IF Pair(Cur(t)).flagged THEN "cascSkip" ELSE "cascPass"]
  /\ UNCHANGED <<fixed, skip_preprocessing, sc, launched, locks,
                 sc_index, total_candidate_peptides, pairState, visits, output, aborted>>

\* a slip: the `continue` of the already-assigned path leaves the lock held
CascadeUnlockLeak(t) ==
  /\ ~aborted /\ pc[t] \in {"cascSkip", "cascPass"}
  /\ IF pc[t] = "cascSkip"
       THEN SetPair(t, "flagged") /\ Advance(t) /\ UNCHANGED locks
       ELSE /\ Release("LOCK_CASCADE")
            /\ pc' = [pc EXCEPT ![t] = "filter"]
            /\ UNCHANGED <<pairState, sc>>
  /\ UNCHANGED <<fixed, skip_preprocessing, launched,
                 sc_index, total_candidate_peptides, visits, output, aborted>>
\* lines 486-487 (found: unlock, continue) and line 489 (not found: unlock)
CascadeUnlock(t) ==
  /\ ~aborted /\ pc[t] \in {"cascSkip", "cascPass"}
  /\ Release("LOCK_CASCADE")
  /\ IF pc[t] = "cascSkip"
       THEN SetPair(t, "flagged") /\ Advance(t)
       ELSE /\ pc' = [pc EXCEPT ![t] = "filter"]
            /\ UNCHANGED <<pairState, sc>>
  /\ UNCHANGED <<fixed, skip_preprocessing, launched,
                 sc_index, total_candidate_peptides, visits, output, aborted>>

\* a slip: the filter lets every pair through to the window
FilterPassAll(t) ==
  /\ ~aborted /\ pc[t] = "filter"
  /\ pc' = [pc EXCEPT ![t] = "window"]
  /\ UNCHANGED <<fixed, skip_preprocessing, sc, launched, locks,
                 sc_index, total_candidate_peptides, pairState, visits, output, aborted>>
\* lines 492-497
Filter(t) ==
  /\ ~aborted /\ pc[t] = "filter"
  /\ IF Pair(Cur(t)).passes
       THEN /\ pc' = [pc EXCEPT ![t] = "window"]
            /\ UNCHANGED <<pairState, sc>>
       ELSE SetPair(t, "filtered") /\ Advance(t)
  /\ UNCHANGED <<fixed, skip_preprocessing, launched, locks,
                 sc_index, total_candidate_peptides, visits, output, aborted>>

\* lines 500-505: computeWindow, whose default case (lines 1051-1053) is fatal
Window(t) ==
  /\ ~aborted /\ pc[t] = "window"
  /\ IF loop_window_type = "WINDOW_INVALID"
       THEN /\ aborted' = TRUE
            /\ UNCHANGED <<pairState, pc>>
       ELSE /\ SetPair(t, "windowed")
            /\ pc' = [pc EXCEPT ![t] = "fetch"]
            /\ UNCHANGED aborted
  /\ UNCHANGED <<fixed, skip_preprocessing, sc, launched, locks,
                 sc_index, total_candidate_peptides, visits, output>>

\* standard mode, lines 510-517: PreprocessSpectrum, SetActiveRange, and
\* `continue` when there is no candidate
FetchStandard(t) ==
  /\ ~aborted /\ pc[t] = "fetch" /\ ~exact_pval_search
  /\ IF Pair(Cur(t)).ncand = 0
       THEN SetPair(t, "empty") /\ Advance(t)
       ELSE /\ SetPair(t, "fetched")
            /\ pc' = [pc EXCEPT ![t] = "lockCand"]
            /\ UNCHANGED sc
  /\ UNCHANGED <<fixed, skip_preprocessing, launched, locks,
                 sc_index, total_candidate_peptides, visits, output, aborted>>

\* exact-p-value mode, lines 565-575: the deisotope check is fatal, else
\* SetActiveRangeBIons; there is no `continue` for an empty window
FetchExact(t) ==
  /\ ~aborted /\ pc[t] = "fetch" /\ exact_pval_search
  /\ IF deisotope
       THEN /\ aborted' = TRUE
            /\ UNCHANGED <<pairState, pc>>
       ELSE /\ SetPair(t, "fetched")
            /\ pc' = [pc EXCEPT ![t] = "lockCand"]
            /\ UNCHANGED aborted
  /\ UNCHANGED <<fixed, skip_preprocessing, sc, launched, locks,
                 sc_index, total_candidate_peptides, visits, output>>

\* a slip: the counter is updated without taking the candidates lock
LockCandidatesNone(t) ==
  /\ ~aborted /\ pc[t] = "lockCand"
  /\ pc' = [pc EXCEPT ![t] = "addCand"]
  /\ UNCHANGED <<fixed, skip_preprocessing, sc, launched, locks,
                 sc_index, total_candidate_peptides, pairState, visits, output, aborted>>
\* lines 518 and 576
LockCandidates(t) ==
  /\ ~aborted /\ pc[t] = "lockCand"
  /\ Acquire("LOCK_CANDIDATES", t)
  /\ pc' = [pc EXCEPT ![t] = "addCand"]
  /\ UNCHANGED <<fixed, skip_preprocessing, sc, launched,
                 sc_index, total_candidate_peptides, pairState, visits, output, aborted>>

\* a slip: the count is stored, not added
AddCandidatesStore(t) ==
  /\ ~aborted /\ pc[t] = "addCand"
  /\ total_candidate_peptides' = Pair(Cur(t)).ncand
  /\ pc' = [pc EXCEPT ![t] = "unlockCand"]
  /\ UNCHANGED <<fixed, skip_preprocessing, sc, launched, locks,
                 sc_index, pairState, visits, output, aborted>>
\* lines 519 and 577: *total_candidate_peptides += nCandPeptide
AddCandidates(t) ==
  /\ ~aborted /\ pc[t] = "addCand"
  /\ total_candidate_peptides' = total_candidate_peptides + Pair(Cur(t)).ncand
  /\ pc' = [pc EXCEPT ![t] = "unlockCand"]
  /\ UNCHANGED <<fixed, skip_preprocessing, sc, launched, locks,
                 sc_index, pairState, visits, output, aborted>>

\* lines 520 and 578
UnlockCandidates(t) ==
  /\ ~aborted /\ pc[t] = "unlockCand"
  /\ Release("LOCK_CANDIDATES")
  /\ pc' = [pc EXCEPT ![t] = "score"]
  /\ UNCHANGED <<fixed, skip_preprocessing, sc, launched,
                 sc_index, total_candidate_peptides, pairState, visits, output, aborted>>

\* lines 522-530 (collectScoresCompiled) and lines 580-697 (the score-count
\* tables and the p-value of every flagged candidate)
Score(t) ==
  /\ ~aborted /\ pc[t] = "score"
  /\ SetPair(t, "scored")
  /\ pc' = [pc EXCEPT ![t] = IF peptide_centric THEN "attach" ELSE "lockRes"]
  /\ UNCHANGED <<fixed, skip_preprocessing, sc, launched, locks,
                 sc_index, total_candidate_peptides, visits, output, aborted>>

\* peptide-centric: lines 535-543 and 682-683 (AddHit), then lines 719-721
Attach(t) ==
  /\ ~aborted /\ pc[t] = "attach"
  /\ SetPair(t, "attached")
  /\ Advance(t)
  /\ UNCHANGED <<fixed, skip_preprocessing, launched, locks,
                 sc_index, total_candidate_peptides, visits, output, aborted>>

\* spectrum-centric: matches.report(..., locks_array[LOCK_RESULTS]), lines
\* 558-562 and 710-715; report takes the lock it is given around its writes
LockResults(t) ==
  /\ ~aborted /\ pc[t] = "lockRes"
  /\ Acquire("LOCK_RESULTS", t)
  /\ pc' = [pc EXCEPT ![t] = "write"]
  /\ UNCHANGED <<fixed, skip_preprocessing, sc, launched,
                 sc_index, total_candidate_peptides, pairState, visits, output, aborted>>

WriteReport(t) ==
  /\ ~aborted /\ pc[t] = "write"
  /\ output' = output \cup {Cur(t)}
  /\ SetPair(t, "reported")
  /\ pc' = [pc EXCEPT ![t] = "unlockRes"]
  /\ UNCHANGED <<fixed, skip_preprocessing, sc, launched, locks,
                 sc_index, total_candidate_peptides, visits, aborted>>

\* the end of report, then lines 719-721 and the loop's increment
UnlockResults(t) ==
  /\ ~aborted /\ pc[t] = "unlockRes"
  /\ Release("LOCK_RESULTS")
  /\ Advance(t)
  /\ UNCHANGED <<fixed, skip_preprocessing, launched,
                 sc_index, total_candidate_peptides, pairState, visits, output, aborted>>

\* where a thread goes when search(threadarg) returns: main goes on to
\* join_all, a spawned thread ends
AfterSearch(t) == IF t = 0 THEN "join" ELSE "done"

\* Params::GetBool("skip-preprocessing"): the parameter's value is fixed for
\* the run; it is drawn when the first thread reads it and kept for the others
ReadSkipPreprocessing == skip_preprocessing

\* lines 724-725: the per-thread peak statistics, unless skip-preprocessing
StatsLock(t) ==
  /\ ~aborted /\ pc[t] = "stats"
  /\ \E skip \in ReadSkipPreprocessing :
       /\ skip_preprocessing' = {skip}
       /\ IF skip
            THEN /\ pc' = [pc EXCEPT ![t] = AfterSearch(t)]
                 /\ UNCHANGED locks
            ELSE /\ Acquire("LOCK_REPORTING", t)
                 /\ pc' = [pc EXCEPT ![t] = "statsLog"]
  /\ UNCHANGED <<fixed, sc, launched,
                 sc_index, total_candidate_peptides, pairState, visits, output, aborted>>

\* lines 726-740
StatsUnlock(t) ==
  /\ ~aborted /\ pc[t] = "statsLog"
  /\ Release("LOCK_REPORTING")
  /\ pc' = [pc EXCEPT ![t] = AfterSearch(t)]
  /\ UNCHANGED <<fixed, skip_preprocessing, sc, launched,
                 sc_index, total_candidate_peptides, pairState, visits, output, aborted>>

\* a slip: main does not wait for the spawned threads
AllJoinedNoWait == TRUE
\* threadgroup.join_all() returns once every spawned thread has ended
AllJoined == \A t \in Threads \ {0} : pc[t] = "done"

\* lines 836-847: join, log, free the locks and counters, return
Join ==
  /\ ~aborted /\ pc[0] = "join"
  /\ AllJoined
  /\ pc' = [pc EXCEPT ![0] = "returned"]
  /\ UNCHANGED <<fixed, skip_preprocessing, sc, launched, locks,
                 sc_index, total_candidate_peptides, pairState, visits, output, aborted>>

Worker(t) ==
  \/ LoopTest(t)
  \/ LockReporting(t) \/ IncrScIndex(t) \/ UnlockReporting(t)
  \/ CascadeLock(t) \/ CascadeFind(t) \/ CascadeUnlock(t)
  \/ Filter(t) \/ Window(t) \/ FetchStandard(t) \/ FetchExact(t)
  \/ LockCandidates(t) \/ AddCandidates(t) \/ UnlockCandidates(t)
  \/ Score(t) \/ Attach(t)
  \/ LockResults(t) \/ WriteReport(t) \/ UnlockResults(t)
  \/ StatsLock(t) \/ StatsUnlock(t)

Next ==
  \/ Launch
  \/ RunSlice0
  \/ \E t \in Threads : LoopTest(t)
  \/ \E t \in Threads : LockReporting(t)
  \/ \E t \in Threads : IncrScIndex(t)
  \/ \E t \in Threads : UnlockReporting(t)
  \/ \E t \in Threads : CascadeLock(t)
  \/ \E t \in Threads : CascadeFind(t)
  \/ \E t \in Threads : CascadeUnlock(t)
  \/ \E t \in Threads : Filter(t)
  \/ \E t \in Threads : Window(t)
  \/ \E t \in Threads : FetchStandard(t)
  \/ \E t \in Threads : FetchExact(t)
  \/ \E t \in Threads : LockCandidates(t)
  \/ \E t \in Threads : AddCandidates(t)
  \/ \E t \in Threads : UnlockCandidates(t)
  \/ \E t \in Threads : Score(t)
  \/ \E t \in Threads : Attach(t)
  \/ \E t \in Threads : LockResults(t)
  \/ \E t \in Threads : WriteReport(t)
  \/ \E t \in Threads : UnlockResults(t)
  \/ \E t \in Threads : StatsLock(t)
  \/ \E t \in Threads : StatsUnlock(t)
  \/ Join

InitOther == tcfg = <<>> /\ iso = <<>> /\ win = <<>> /\ pre = <<>> /\ dp = <<>>

Init == InitSearch /\ InitOther
Spec == Init /\ [][Next]_vars

(* ------------------------------------------------------------------ *)
(* Properties of the scan loop                                          *)
(* ------------------------------------------------------------------ *)
\* thread t has left the loop of lines 465-722
LoopOver(t) == pc[t] \in {"stats", "statsLog", "join", "done", "returned"}

\* C1: sharding.  No index is started twice, index i is started by thread
\* i mod NUM_THREADS only, and once every thread has left its loop every index
\* 0 .. N-1 has been started exactly once (also when NUM_THREADS > N).
C1_ShardingExactlyOnce ==
  /\ \A i \in Indices :
       /\ Len(visits[i]) <= 1
       /\ \A k \in 1 .. Len(visits[i]) : visits[i][k] = i % NUM_THREADS
  /\ ((\A t \in Threads : LoopOver(t)) => \A i \in Indices : Len(visits[i]) = 1)

\* C1 witness: more threads than pairs, the search has returned, and the only
\* pair was handled (by thread 0) while thread 1 found its slice empty
C1_Witness ==
  /\ pc[0] = "returned"
  /\ NUM_THREADS > Len(spec_charges)
  /\ Len(spec_charges) = MaxPairs - 1
  /\ \A i \in Indices : visits[i] = <<i % NUM_THREADS>>

C3_CountersUnderLock ==
  [][ /\ sc_index' >= sc_index
      /\ total_candidate_peptides' >= total_candidate_peptides
      /\ (sc_index' # sc_index =>
            \E t \in Threads : /\ pc[t] = "incr" /\ pc'[t] # pc[t]
                               /\ locks["LOCK_REPORTING"] = t
                               /\ locks'["LOCK_REPORTING"] = t)
      /\ (total_candidate_peptides' # total_candidate_peptides =>
            \E t \in Threads : pc[t] = "addCand" /\ pc'[t] # pc[t])
      /\ \A t \in Threads :
            (pc[t] = "addCand" /\ pc'[t] # pc[t]) =>
               /\ locks["LOCK_CANDIDATES"] = t
               /\ locks'["LOCK_CANDIDATES"] = t
    ]_vars

\* C3 witness: one thread has added its candidates and still holds the
\* candidates lock while another thread waits for it
C3_Witness ==
  \E t, u \in Threads :
    /\ t # u
    /\ pc[t] = "unlockCand" /\ locks["LOCK_CANDIDATES"] = t
    /\ pc[u] = "lockCand"
    /\ total_candidate_peptides > 0
    /\ sc_index >= 1

\* the positions at which a thread holds each lock
CriticalSection(l) ==
  CASE l = "LOCK_REPORTING"  -> {"incr", "unlockRep", "statsLog"}
    [] l = "LOCK_CASCADE"    -> {"cascFind", "cascSkip", "cascPass"}
    [] l = "LOCK_CANDIDATES" -> {"addCand", "unlockCand"}
    [] l = "LOCK_RESULTS"    -> {"write", "unlockRes"}

\* C4: a thread holds a lock only between its acquisition and the end of the
\* section the lock protects (so it is released on every path, the cascade
\* skip included), no thread holds two locks, and no reachable state is a
\* deadlock: until the search returns or the process is aborted some step is
\* enabled.
C4_LocksShortNoDeadlock ==
  /\ \A l \in LockTypes : locks[l] \in Threads \cup {Free}
  /\ \A l \in LockTypes : \A t \in Threads :
       locks[l] = t => pc[t] \in CriticalSection(l)
  /\ \A t \in Threads : Cardinality({l \in LockTypes : locks[l] = t}) <= 1
  /\ ((~aborted /\ pc[0] # "returned") => ENABLED Next)

\* C4 witness: a pair was skipped as already assigned, and after that skip the
\* cascade lock is held by the other thread while the skipping thread goes on
C4_Witness ==
  \E t, u \in Threads :
    /\ t # u
    /\ \E i \in Indices : pairState[i] = "flagged" /\ visits[i] = <<t>>
    /\ locks["LOCK_CASCADE"] = u
    /\ pc[t] \in {"loop", "stats", "statsLog", "join"}

(* ------------------------------------------------------------------ *)
(* main: the choice of NUM_THREADS (SpecThreads)                        *)
(* ------------------------------------------------------------------ *)
\* the largest thread count main accepts from the configuration (line 67)
MAX_REQUESTED_THREADS == 64
\* how far beyond the limit of 64 (and below 0) the explored values reach
ThreadSlack == 2
\* the values of Params "num-threads" explored
NumThreadsParams == (0 - ThreadSlack) .. (MAX_REQUESTED_THREADS + ThreadSlack)
\* the values boost::thread::hardware_concurrency() returns in the model; the
\* function returns 0 when the number of hardware threads is not known
HardwareThreads == 0 .. (MAX_REQUESTED_THREADS + ThreadSlack)

\* tcfg is main's state: where it is (at), the two parameters it reads, what
\* the host reports, and the static NUM_THREADS (0 before main sets it)
InitThreads ==
  tcfg \in [ at                  : {"start"},
             peptide_centric     : BOOLEAN,
             num_threads_param   : NumThreadsParams,
             hardware_concurrency: HardwareThreads,
             NUM_THREADS         : {0} ]

\* lines 58-63
SetNumThreads ==
  /\ tcfg.at = "start"
  /\ tcfg' = [tcfg EXCEPT !.at = "set",
                          !.NUM_THREADS = IF ~tcfg.peptide_centric
                                            THEN tcfg.num_threads_param
                                            ELSE 1]
  /\ UNCHANGED <<searchVars, iso, win, pre, dp>>

\* lines 64-70: below 1 the count is taken from the hardware, `else` above 64
\* the run is fatal
CheckNumThreads ==
  /\ tcfg.at = "set"
  /\ tcfg' = IF tcfg.NUM_THREADS < 1
               THEN [tcfg EXCEPT !.at = "checked",
                                 !.NUM_THREADS = tcfg.hardware_concurrency]
               ELSE IF tcfg.NUM_THREADS > MAX_REQUESTED_THREADS
                      THEN [tcfg EXCEPT !.at = "fatal"]
                      ELSE [tcfg EXCEPT !.at = "checked"]
  /\ UNCHANGED <<searchVars, iso, win, pre, dp>>

\* lines 184-187 and 239-282: NUM_THREADS readers and queues are made and
\* search(...) is called with them.  With NUM_THREADS = 0 the vectors are
\* empty and line 240 reads peptide_reader[0]: undefined behaviour, which
\* either ends the process or lets the run go on to the search.
StartSearch ==
  /\ tcfg.at = "checked"
  /\ \E next \in (IF tcfg.NUM_THREADS >= 1 THEN {"search"} ELSE {"search", "segv"}) :
       tcfg' = [tcfg EXCEPT !.at = next]
  /\ UNCHANGED <<searchVars, iso, win, pre, dp>>

\* the scan loop's variables while another specification runs
IdleSearch ==
  /\ NUM_THREADS = 1 /\ spec_charges = <<>> /\ spectrum_flag = FALSE
  /\ exact_pval_search = FALSE /\ peptide_centric = FALSE /\ deisotope = FALSE
  /\ loop_window_type = "WINDOW_MASS"
  /\ skip_preprocessing = BOOLEAN
  /\ pc = [t \in {0} |-> "launch"] /\ sc = [t \in {0} |-> 0] /\ launched = 1
  /\ locks = [l \in LockTypes |-> Free]
  /\ sc_index = -1 /\ total_candidate_peptides = 0
  /\ pairState = <<>> /\ visits = <<>> /\ output = {} /\ aborted = FALSE

NextThreads == SetNumThreads \/ CheckNumThreads \/ StartSearch
InitThreadsRun == InitThreads /\ IdleSearch /\ iso = <<>> /\ win = <<>> /\ pre = <<>> /\ dp = <<>>
SpecThreads == InitThreadsRun /\ [][NextThreads]_vars

\* C5: whenever the run reaches the search, the thread count used for
\* sharding is at least 1 and at most 64.
C5_ThreadCountInRange ==
  tcfg.at = "search" =>
     (tcfg.NUM_THREADS >= 1 /\ tcfg.NUM_THREADS <= MAX_REQUESTED_THREADS)

(* ------------------------------------------------------------------ *)
(* getNegativeIsotopeErrors (SpecIso)                                   *)
(* ------------------------------------------------------------------ *)
\* longest "isotope-error" string explored
MaxIsoLen == 4
\* The characters of the explored strings; a string is a sequence of them.
Digits == {"0", "1", "2"}
IsoChars == Digits \cup {",", "-"}

DigitValue(c) == CASE c = "0" -> 0 [] c = "1" -> 1 [] c = "2" -> 2

\* StringUtils::Split<int>(s, ','): the pieces of s between the commas, each
\* read as a decimal integer with an optional leading '-'
RECURSIVE Tokens(_, _, _)
Tokens(s, k, current) ==
  IF k > Len(s) THEN <<current>>
  ELSE IF s[k] = "," THEN <<current>> \o Tokens(s, k + 1, <<>>)
       ELSE Tokens(s, k + 1, Append(current, s[k]))

RECURSIVE DecimalValue(_, _)
DecimalValue(tok, acc) ==
  IF tok = <<>> THEN acc
  ELSE DecimalValue(Tail(tok), 10 * acc + DigitValue(Head(tok)))

\* a piece that reads as an integer: digits, with an optional leading '-'
IsIntToken(tok) ==
  /\ tok # <<>>
  /\ LET body == IF Head(tok) = "-" THEN Tail(tok) ELSE tok
     IN  body # <<>> /\ \A k \in 1 .. Len(body) : body[k] \in Digits

ToInt(tok) == IF Head(tok) = "-" THEN 0 - DecimalValue(Tail(tok), 0)
                                 ELSE DecimalValue(tok, 0)

Split(s) == LET toks == Tokens(s, 1, <<>>)
            IN  [k \in 1 .. Len(toks) |-> ToInt(toks[k])]

\* the strings explored: every piece between commas is empty or an integer
IsoStrings ==
  { s \in SeqsUpTo(IsoChars, MaxIsoLen) :
      LET toks == Tokens(s, 1, <<>>)
      IN  \A k \in 1 .. Len(toks) : toks[k] = <<>> \/ IsIntToken(toks[k]) }

\* line 325; isotope_errors_string[0] of the empty string is '\0'
LeadingComma(s) == Len(s) > 0 /\ s[1] = ","

\* lines 329-333: a comma that ends the string or is followed by a comma
BadComma(s) ==
  \E i \in 1 .. Len(s) : s[i] = "," /\ (i = Len(s) \/ s[i + 1] = ",")

Contains(list, x) == \E k \in 1 .. Len(list) : list[k] = x

\* a slip: the duplicate test is left out
IsDuplicateNever(list, e) == FALSE
\* lines 341-342: find(negative_isotope_errors.begin(), .end(), -(*i)) != end()
IsDuplicate(list, e) == Contains(list, 0 - e)

\* lines 338-346: the loop over the parsed values, from the k-th on; the
\* result is the list so far and whether carp(CARP_FATAL) was reached
RECURSIVE AddIsotopeErrors(_, _, _)
AddIsotopeErrors(list, errors, k) ==
  IF k > Len(errors) THEN [fatal |-> FALSE, list |-> list]
  ELSE IF errors[k] < 0 THEN [fatal |-> TRUE, list |-> list]
  ELSE IF IsDuplicate(list, errors[k]) THEN [fatal |-> TRUE, list |-> list]
  ELSE AddIsotopeErrors(Append(list, 0 - errors[k]), errors, k + 1)

\* insertion of x into an ascending list
RECURSIVE InsertAsc(_, _)
InsertAsc(list, x) ==
  IF list = <<>> THEN <<x>>
  ELSE IF x <= Head(list) THEN <<x>> \o list
  ELSE <<Head(list)>> \o InsertAsc(Tail(list), x)

RECURSIVE SortFrom(_, _)
SortFrom(list, sorted) ==
  IF list = <<>> THEN sorted ELSE SortFrom(Tail(list), InsertAsc(sorted, Head(list)))

\* a slip: the list is returned in input order
SortIntsNone(list) == list
\* line 348: sort(negative_isotope_errors.begin(), negative_isotope_errors.end())
SortInts(list) == SortFrom(list, <<>>)

\* lines 323-350
getNegativeIsotopeErrors(isotope_errors_string) ==
  IF LeadingComma(isotope_errors_string) \/ BadComma(isotope_errors_string)
    THEN [fatal |-> TRUE, list |-> <<>>]
    ELSE LET added == IF isotope_errors_string # <<>>
                        THEN AddIsotopeErrors(<<0>>, Split(isotope_errors_string), 1)
                        ELSE [fatal |-> FALSE, list |-> <<0>>]
         IN  IF added.fatal THEN [fatal |-> TRUE, list |-> <<>>]
             ELSE [fatal |-> FALSE, list |-> SortInts(added.list)]

\* iso: the parameter string, where the parser is, and what it returned
InitIso ==
  iso \in [at : {"start"}, input : IsoStrings, fatal : {FALSE}, list : {<<>>}]

ParseIsotopeErrors ==
  /\ iso.at = "start"
  /\ LET r == getNegativeIsotopeErrors(iso.input)
     IN  iso' = [iso EXCEPT !.at = IF r.fatal THEN "fatal" ELSE "returned",
                            !.fatal = r.fatal, !.list = r.list]
  /\ UNCHANGED <<searchVars, tcfg, win, pre, dp>>

NextIso == ParseIsotopeErrors
InitIsoRun == InitIso /\ IdleSearch /\ tcfg = <<>> /\ win = <<>> /\ pre = <<>> /\ dp = <<>>
SpecIso == InitIsoRun /\ [][NextIso]_vars

\* the integers listed in a string that has no comma defect
Listed(s) == IF s = <<>> THEN <<>> ELSE Split(s)
NoCommaDefect(s) == ~LeadingComma(s) /\ ~BadComma(s)
ListsDistinctPositives(s) ==
  /\ NoCommaDefect(s)
  /\ LET e == Listed(s)
     IN  /\ \A k \in 1 .. Len(e) : e[k] > 0
         /\ \A j, k \in 1 .. Len(e) : j # k => e[j] # e[k]

\* C6: for a string that lists distinct positive integers separated by single
\* commas (the empty string included) the parser returns, without a fatal
\* error, the strictly ascending list whose elements are 0 and the negated
\* values: every element <= 0 and the last one 0.
C6_SortedNegatedList ==
  (iso.at # "start" /\ ListsDistinctPositives(iso.input)) =>
     /\ iso.at = "returned"
     /\ { iso.list[k] : k \in 1 .. Len(iso.list) }
          = {0} \cup { 0 - Listed(iso.input)[k] : k \in 1 .. Len(Listed(iso.input)) }
     /\ Len(iso.list) = Len(Listed(iso.input)) + 1
     /\ \A k \in 1 .. Len(iso.list) - 1 : iso.list[k] < iso.list[k + 1]
     /\ \A k \in 1 .. Len(iso.list) : iso.list[k] <= 0
     /\ iso.list[Len(iso.list)] = 0

\* C6 witness: "1,2" was parsed and gave -2, -1, 0
C6_Witness ==
  /\ iso.at = "returned"
  /\ iso.input = <<"1", ",", "2">>
  /\ iso.list = <<0 - 2, 0 - 1, 0>>

\* the defects the claim lists
ClaimedDefect(s) ==
  \/ LeadingComma(s)
  \/ BadComma(s)
  \/ /\ NoCommaDefect(s)
     /\ LET e == Listed(s)
        IN  \/ \E k \in 1 .. Len(e) : e[k] < 0
            \/ \E j, k \in 1 .. Len(e) : j # k /\ e[j] = e[k]

\* C7 as claimed: the parse is fatal exactly when the string has a leading,
\* trailing or doubled comma, a negative value or a value listed twice.
C7_FatalExactlyOnDefect ==
  iso.at # "start" => (iso.at = "fatal" <=> ClaimedDefect(iso.input))

\* C7 as amended: the parse is fatal exactly when the string has one of those
\* defects or lists the value 0, which duplicates the 0 the list starts with.
C7_FatalOnDefectOrZero ==
  iso.at # "start" =>
    (iso.at = "fatal" <=>
       \/ ClaimedDefect(iso.input)
       \/ /\ NoCommaDefect(iso.input)
          /\ \E k \in 1 .. Len(Listed(iso.input)) : Listed(iso.input)[k] = 0)

\* C7 witness: "0,1" repeats no value and its parse is fatal
C7_Witness ==
  /\ iso.at = "fatal"
  /\ iso.input = <<"0", ",", "1">>

(* ------------------------------------------------------------------ *)
(* computeWindow (SpecWin)                                              *)
(* ------------------------------------------------------------------ *)
\* The code computes in doubles.  The model computes the same expressions
\* exactly: a mass or an m/z is a whole number of ticks, TicksPerDalton ticks
\* to the dalton, and a computed bound is a pair <<q, r>> that stands for
\* q + r / Million ticks with 0 <= r < Million.  Rounding is not modelled.
TicksPerDalton == 2000
Million == 1000000

\* BIN_WIDTH and MASS_PROTON, in ticks (1.0005 Da and 1.0075 Da); both are
\* defined outside the sources at hand
unit_dalton == 2001
MASS_PROTON == 2015

Whole(x) == <<x, 0>>
Plus(x, v) == <<x + v[1], v[2]>>
Negated(v) == IF v[2] = 0 THEN <<0 - v[1], 0>> ELSE <<0 - v[1] - 1, Million - v[2]>>
\* a <= b
LessEq(a, b) == a[1] < b[1] \/ (a[1] = b[1] /\ a[2] <= b[2])

\* x * ppm / Million for x >= 0 and ppm >= 0, by thousands so that no
\* intermediate product leaves the integers of the model checker
ScaledNat(x, ppm) ==
  LET xh == x \div 1000      xl == x % 1000
      ph == ppm \div 1000    pl == ppm % 1000
      mid == xh * pl + xl * ph
      low == (mid % 1000) * 1000 + xl * pl
  IN  <<xh * ph + (mid \div 1000) + (low \div Million), low % Million>>

\* x * (ppm * 1e-6) for any x
Scaled(x, ppm) == IF x >= 0 THEN ScaledNat(x, ppm) ELSE Negated(ScaledNat(0 - x, ppm))

\* x * (1.0 - precursor_window * 1e-6) and x * (1.0 + precursor_window * 1e-6)
TimesOneMinus(x, ppm) == Plus(x, Negated(Scaled(x, ppm)))
TimesOnePlus(x, ppm) == Plus(x, Scaled(x, ppm))

\* a slip: the isotope offset is left out of the mass window
MassWindowNoOffset(sc_, w, ie) ==
  [min |-> Whole(sc_.neutral_mass - w),
   max |-> Whole(sc_.neutral_mass + w)]
\* lines 1025-1026
MassWindow(sc_, w, ie) ==
  [min |-> Whole(sc_.neutral_mass + (ie * unit_dalton) - w),
   max |-> Whole(sc_.neutral_mass + (ie * unit_dalton) + w)]

\* lines 1032-1035
MzWindow(sc_, w, ie) ==
  LET mz_minus_proton == sc_.precursor_mz - MASS_PROTON
  IN  [min |-> Whole((mz_minus_proton - w) * sc_.charge + (ie * unit_dalton)),
       max |-> Whole((mz_minus_proton + w) * sc_.charge + (ie * unit_dalton))]

\* a slip: the lower bound is scaled up like the upper one
PpmWindowBothUp(sc_, w, ie) ==
  [min |-> TimesOnePlus(sc_.neutral_mass + (ie * unit_dalton), w),
   max |-> TimesOnePlus(sc_.neutral_mass + (ie * unit_dalton), w)]
\* lines 1042-1045
PpmWindow(sc_, w, ie) ==
  [min |-> TimesOneMinus(sc_.neutral_mass + (ie * unit_dalton), w),
   max |-> TimesOnePlus(sc_.neutral_mass + (ie * unit_dalton), w)]

front(list) == list[1]
back(list) == list[Len(list)]

\* lines 1028-1029
MassRange(sc_, w, errors) ==
  [min |-> Whole((sc_.neutral_mass + (front(errors) * unit_dalton)) - w),
   max |-> Whole((sc_.neutral_mass + (back(errors) * unit_dalton)) + w)]

\* a slip: the envelope of the m/z mode takes the offsets the wrong way round
MzRangeSwapped(sc_, w, max_charge, errors) ==
  LET mz_minus_proton == sc_.precursor_mz - MASS_PROTON
  IN  [min |-> Whole((mz_minus_proton * sc_.charge + (back(errors) * unit_dalton)) - w * max_charge),
       max |-> Whole((mz_minus_proton * sc_.charge + (front(errors) * unit_dalton)) + w * max_charge)]
\* lines 1037-1038
MzRange(sc_, w, max_charge, errors) ==
  LET mz_minus_proton == sc_.precursor_mz - MASS_PROTON
  IN  [min |-> Whole((mz_minus_proton * sc_.charge + (front(errors) * unit_dalton)) - w * max_charge),
       max |-> Whole((mz_minus_proton * sc_.charge + (back(errors) * unit_dalton)) + w * max_charge)]

\* lines 1047-1048
PpmRange(sc_, w, errors) ==
  [min |-> TimesOneMinus(sc_.neutral_mass + (front(errors) * unit_dalton), w),
   max |-> TimesOnePlus(sc_.neutral_mass + (back(errors) * unit_dalton), w)]

WindowTypes == {"WINDOW_MASS", "WINDOW_MZ", "WINDOW_PPM"}

\* lines 1010-1056: one (min, max) per isotope error, pushed in list order,
\* and the envelope; any other selector is fatal
computeWindow(sc_, window_type, precursor_window, max_charge, errors) ==
  LET each(W(_)) == [k \in 1 .. Len(errors) |-> W(errors[k])]
      mass(ie) == MassWindow(sc_, precursor_window, ie)
      mz(ie)   == MzWindow(sc_, precursor_window, ie)
      ppm(ie)  == PpmWindow(sc_, precursor_window, ie)
      result(windows, range) ==
        [fatal |-> FALSE,
         out_min |-> [k \in 1 .. Len(windows) |-> windows[k].min],
         out_max |-> [k \in 1 .. Len(windows) |-> windows[k].max],
         min_range |-> range.min, max_range |-> range.max]
  IN  CASE window_type = "WINDOW_MASS" ->
             result(each(mass), MassRange(sc_, precursor_window, errors))
        [] window_type = "WINDOW_MZ" ->
             result(each(mz), MzRange(sc_, precursor_window, max_charge, errors))
        [] window_type = "WINDOW_PPM" ->
             result(each(ppm), PpmRange(sc_, precursor_window, errors))
        [] OTHER ->
             [fatal |-> TRUE, out_min |-> <<>>, out_max |-> <<>>,
              min_range |-> Whole(0), max_range |-> Whole(0)]

\* largest isotope error listed in the "isotope-error" parameter
MaxIsotope == 2
\* largest precursor charge and "max-precursor-charge" explored
MaxCharge == 2

\* the lists getNegativeIsotopeErrors returns for the accepted strings that
\* list isotope errors up to MaxIsotope: 0 and the negated values, ascending
RECURSIVE NegatedList(_)
NegatedList(S) ==
  IF S = {} THEN <<0>>
  ELSE LET x == CHOOSE y \in S : TRUE IN Append(NegatedList(S \ {x}), 0 - x)
IsotopeErrorLists == { SortInts(NegatedList(S)) : S \in SUBSET (1 .. MaxIsotope) }

\* neutral masses (1, 999.5, 1000 and 2500 Da) and precursor m/z (500.5 and 1001)
NeutralMasses == {2000, 1999000, 2000000, 5000000}
PrecursorMzs == {1001000, 2002000}
\* "precursor-window": ticks in the mass and m/z modes, ppm in the ppm mode
PrecursorWindows == {0, 10, 6000, 1000000, 2000000}

\* the selectors string_to_window_type can return; the last one is none of
\* the three modes
WindowSelectors == WindowTypes \cup {"WINDOW_INVALID"}

\* win: the arguments of one call (the pair passed the filter of line 495,
\* so its charge is at most max_charge) and, once made, the call's result
InitWin ==
  win \in { w \in [ at : {"start"},
                    window_type : WindowSelectors,
                    sc : [neutral_mass : NeutralMasses, precursor_mz : PrecursorMzs,
                          charge : 1 .. MaxCharge],
                    precursor_window : PrecursorWindows,
                    max_charge : 1 .. MaxCharge,
                    negative_isotope_errors : IsotopeErrorLists,
                    result : {<<>>} ] :
            w.sc.charge <= w.max_charge }

ComputeWindowCall ==
  /\ win.at = "start"
  /\ LET r == computeWindow(win.sc, win.window_type, win.precursor_window,
                            win.max_charge, win.negative_isotope_errors)
     IN  win' = [win EXCEPT !.at = IF r.fatal THEN "fatal" ELSE "returned",
                            !.result = r]
  /\ UNCHANGED <<searchVars, tcfg, iso, pre, dp>>

NextWin == ComputeWindowCall
InitWinRun == InitWin /\ IdleSearch /\ tcfg = <<>> /\ iso = <<>> /\ pre = <<>> /\ dp = <<>>
SpecWin == InitWinRun /\ [][NextWin]_vars

\* one pair per isotope error, and the envelope contains every pair
PairsInsideEnvelope ==
  LET r == win.result
      errors == win.negative_isotope_errors
  IN  /\ Len(r.out_min) = Len(errors)
      /\ Len(r.out_max) = Len(errors)
      /\ \A k \in 1 .. Len(errors) :
           /\ LessEq(r.min_range, r.out_min[k])
           /\ LessEq(r.out_max[k], r.max_range)

\* the k-th pair is the window of the k-th isotope error: in list order the
\* bounds of successive pairs differ by the difference of the offsets
PairsInListOrder ==
  LET r == win.result
      errors == win.negative_isotope_errors
  IN  \A k \in 1 .. Len(errors) - 1 :
        /\ LessEq(r.out_min[k], r.out_min[k + 1])
        /\ LessEq(r.out_max[k], r.out_max[k + 1])

\* C8 as claimed: in each of the three modes and for every non-negative
\* window, computeWindow gives one (min, max) per isotope error and the
\* envelope contains every one of them.
C8_EnvelopeContainsAll ==
  (win.at = "returned") => PairsInsideEnvelope

\* C8 as amended: the same, in the ppm mode for windows of at most 10^6 ppm
\* (for which the factor 1 - window * 1e-6 is not negative).
C8_EnvelopeContainsAllUpToMillionPpm ==
  (/\ win.at = "returned"
   /\ (win.window_type = "WINDOW_PPM" => win.precursor_window <= Million))
     => (PairsInsideEnvelope /\ PairsInListOrder)

\* C8 witness: an m/z-mode call at a charge below max_charge with three
\* isotope errors has returned
C8_Witness ==
  /\ win.at = "returned"
  /\ win.window_type = "WINDOW_MZ"
  /\ win.sc.charge < win.max_charge
  /\ win.precursor_window > 0
  /\ Len(win.negative_isotope_errors) = MaxIsotope + 1
  /\ Len(win.result.out_min) = MaxIsotope + 1

\* C9: in WINDOW_MASS mode the window of isotope error e is
\* [neutral_mass + e*unit - w, neutral_mass + e*unit + w]; with the list {0}
\* it is [neutral_mass - w, neutral_mass + w] and the envelope is that interval.
C9_MassWindow ==
  (win.at = "returned" /\ win.window_type = "WINDOW_MASS") =>
    LET r == win.result
        errors == win.negative_isotope_errors
        m == win.sc.neutral_mass
        w == win.precursor_window
    IN  /\ Len(r.out_min) = Len(errors) /\ Len(r.out_max) = Len(errors)
        /\ \A k \in 1 .. Len(errors) :
             /\ r.out_min[k] = Whole(m + errors[k] * unit_dalton - w)
             /\ r.out_max[k] = Whole(m + errors[k] * unit_dalton + w)
        /\ (errors = <<0>> =>
             /\ r.out_min = <<Whole(m - w)>> /\ r.out_max = <<Whole(m + w)>>
             /\ r.min_range = Whole(m - w) /\ r.max_range = Whole(m + w))

\* C9 witness: a mass-mode call with the list {0} and a window of 3 Da
C9_Witness ==
  /\ win.at = "returned"
  /\ win.window_type = "WINDOW_MASS"
  /\ win.negative_isotope_errors = <<0>>
  /\ win.precursor_window = 3 * TicksPerDalton
  /\ win.result.min_range = Whole(win.sc.neutral_mass - 3 * TicksPerDalton)

\* v is exactly x * (1 + sign * ppm * 1e-6); stated by cross-multiplication,
\* for the arguments whose product the model checker's integers hold
IsScaledBy(v, x, sign, ppm) ==
  /\ v[2] \in 0 .. (Million - 1)
  /\ LET ax == IF x >= 0 THEN x ELSE 0 - x
     IN  (ppm = 0 \/ ax <= 2000000000 \div ppm) =>
            (v[1] - x) * Million + v[2] = sign * x * ppm

\* mass c lies in the window [lo, hi]
InWindow(c, lo, hi) == LessEq(lo, Whole(c)) /\ LessEq(Whole(c), hi)

\* C10: in WINDOW_PPM mode the window of isotope error e is
\* [(m + e*unit)*(1 - w*1e-6), (m + e*unit)*(1 + w*1e-6)]; for m = 1000.0 Da,
\* w = 10 ppm and the list {0} it is [999.99, 1000.01] Da, which holds
\* 1000.005 Da and does not hold 999.5 Da.
C10_PpmWindow ==
  (win.at = "returned" /\ win.window_type = "WINDOW_PPM") =>
    LET r == win.result
        errors == win.negative_isotope_errors
        m == win.sc.neutral_mass
        w == win.precursor_window
    IN  /\ Len(r.out_min) = Len(errors) /\ Len(r.out_max) = Len(errors)
        /\ \A k \in 1 .. Len(errors) :
             /\ IsScaledBy(r.out_min[k], m + errors[k] * unit_dalton, 0 - 1, w)
             /\ IsScaledBy(r.out_max[k], m + errors[k] * unit_dalton, 1, w)
             /\ r.out_min[k] = TimesOneMinus(m + errors[k] * unit_dalton, w)
             /\ r.out_max[k] = TimesOnePlus(m + errors[k] * unit_dalton, w)
        /\ ((m = 1000 * TicksPerDalton /\ w = 10 /\ errors = <<0>>) =>
             \* 999.99 Da and 1000.01 Da are 1999980 and 2000020 ticks
             /\ r.out_min[1] = Whole(1999980)
             /\ r.out_max[1] = Whole(2000020)
             \* 1000.005 Da is 2000010 ticks, 999.5 Da is 1999000 ticks
             /\ InWindow(2000010, r.out_min[1], r.out_max[1])
             /\ ~InWindow(1999000, r.out_min[1], r.out_max[1]))

\* C10 witness: the ppm-mode call for 1000.0 Da, 10 ppm and the list {0}
C10_Witness ==
  /\ win.at = "returned"
  /\ win.window_type = "WINDOW_PPM"
  /\ win.sc.neutral_mass = 1000 * TicksPerDalton
  /\ win.precursor_window = 10
  /\ win.negative_isotope_errors = <<0>>
  /\ win.result.out_min = <<Whole(1999980)>>

(* ------------------------------------------------------------------ *)
(* Properties of the scan loop: the per-pair state machine              *)
(* ------------------------------------------------------------------ *)
\* the pair is in the cascade's assigned set or fails the filter
Skipped(i) == Pair(i).flagged \/ ~Pair(i).passes

\* C11: a pair that is already assigned by the cascade or fails a filter is
\* skipped with no other effect: it never gets a window or a candidate fetch,
\* the step that skips it changes neither total_candidate_peptides nor the
\* output, and it is never written; a pair that passes goes on to windowing.
C11_SkippedPairHasNoEffect ==
  [][ \A i \in Indices :
        /\ Skipped(i) =>
             /\ pairState'[i] \in {"pending", "flagged", "filtered"}
             /\ i \notin output'
             /\ (pairState'[i] # pairState[i] =>
                   /\ total_candidate_peptides' = total_candidate_peptides
                   /\ output' = output)
        /\ (~Skipped(i) /\ pairState[i] = "pending" /\ pairState'[i] # "pending")
             => pairState'[i] = "windowed" ]_vars

\* C11 witness: the search has returned from a list with a filtered pair and
\* a cascade-assigned pair, with no candidate counted and nothing written
C11_Witness ==
  /\ pc[0] = "returned"
  /\ \E i \in Indices : pairState[i] = "filtered"
  /\ \E i \in Indices : pairState[i] = "flagged"
  /\ total_candidate_peptides = 0
  /\ output = {}

\* the steps of a pair's state machine (spec.md 4.4); "attached" ends a
\* scored pair in peptide-centric mode
PairSteps ==
  { <<"pending", "flagged">>, <<"pending", "filtered">>, <<"pending", "windowed">>,
    <<"windowed", "fetched">>, <<"windowed", "empty">>,
    <<"fetched", "scored">>,
    <<"scored", "reported">>, <<"scored", "attached">> }

\* C12: a pair that passes the filters goes through Windowed,
\* Candidates-fetched, Scored, Reported in that order, and a pair whose fetch
\* returns zero candidates ends there: it is never scored and the Output
\* Writer is never called for it, in standard and exact-p-value mode alike.
C12_PairStateMachine ==
  [][ \A i \in Indices :
        /\ (pairState'[i] # pairState[i] => <<pairState[i], pairState'[i]>> \in PairSteps)
        /\ (~Skipped(i) /\ Pair(i).ncand = 0) =>
              /\ pairState'[i] \in {"pending", "windowed", "fetched", "empty"}
              /\ i \notin output' ]_vars

(* ------------------------------------------------------------------ *)
(* Properties of the scan loop: fatal configuration errors              *)
(* ------------------------------------------------------------------ *)
\* C13: a run configured with a non-zero deisotope threshold together with
\* exact-p-value mode ends in a fatal error for every work list: its search
\* never returns.
C13_DeisotopeExactAlwaysFatal ==
  (deisotope /\ exact_pval_search) => pc[0] # "returned"

\* C14: a fatal configuration error is raised before scheduling begins: when
\* the run has ended with one, no worker has started on a pair, the progress
\* counter and total_candidate_peptides are untouched and nothing was written.
C14_FatalBeforeScheduling ==
  aborted =>
    /\ \A i \in Indices : visits[i] = <<>>
    /\ sc_index = -1
    /\ total_candidate_peptides = 0
    /\ output = {}

(* ------------------------------------------------------------------ *)
(* ObservedPeakSet::PreprocessSpectrum (SpecPre)                        *)
(* ------------------------------------------------------------------ *)
\* number of bins of peaks_ explored: MaxBin::Global().BackgroundBinEnd()
MaxBinEnd == 20
\* most peaks in an explored spectrum
MaxPeaks == 3

\* constants of the preprocessor that are defined outside
\* spectrum_preprocess2.cc
MAX_XCORR_OFFSET == 75
NUM_SPECTRUM_REGIONS == 10
BIN_NH3 == 17
BIN_H2O == 18

\* The doubles of peaks_ are held exactly, as multiples of 1/6000: every
\* value the explored spectra produce (square roots of the explored
\* intensities, 50/highest, 1/150 of a sum) is such a multiple.
PeakUnit == 6000

\* the bins MassConstants::mass2bin gives the explored peaks: the first two
\* bins (one region, flanking each other) and the bin whose water-loss
\* partner is bin 1
PeakBins == {0, 1, 19}
\* the explored raw intensities: perfect squares, one of them more than
\* twenty times the root of the others
Intensities == {1, 4, 1600}
\* sqrt(intensity), line 157, for the explored intensities
Sqrt(x) == CHOOSE r \in 0 .. x : r * r = x

MaxOf(S) == CHOOSE x \in S : \A y \in S : y <= x
MinOf(S) == CHOOSE x \in S : \A y \in S : x <= y

Bins == 0 .. (MaxBinEnd - 1)
\* memset(peaks_, 0, ...), line 79
ZeroPeaks == [b \in Bins |-> 0]
\* what the previous spectrum left in peaks_
StalePeaks == [b \in Bins |-> 7 * PeakUnit]

\* a spectrum: its peaks in ascending m/z order, each with the bin of its
\* m/z and its raw intensity
PeakRecords == [mz : PeakBins, intensity : Intensities]
Ascending(q) == \A k \in 1 .. (Len(q) - 1) : q[k].mz <= q[k + 1].mz
Spectra == { q \in SeqsUpTo(PeakRecords, MaxPeaks) : Ascending(q) }

\* line 85 and line 100: the peak lies at or beyond experimental_mass_cut_off
Beyond(p, peak) == peak.mz >= p.cut_off
\* skip-preprocessing, lines 82-92: the peaks the bucket loop keeps
KeptSkip(p) == { k \in 1 .. Len(p.spectrum) : ~Beyond(p, p.spectrum[k]) }
\* lines 98-149: the peaks that pass the range test, the precursor removal
\* and the deisotoping
Retained(p) ==
  { k \in 1 .. Len(p.spectrum) : ~Beyond(p, p.spectrum[k]) /\ k # p.filtered }

\* lines 82-92: each bin gets the largest raw intensity of its kept peaks
BucketRaw(p) ==
  [b \in Bins |->
     MaxOf({p.peaks_[b]} \cup { PeakUnit * p.spectrum[k].intensity :
                        k \in { j \in KeptSkip(p) : p.spectrum[j].mz = b } })]
\* lines 157-163: each bin gets the largest square root of its retained peaks
FillPeaks(p) ==
  [b \in Bins |->
     MaxOf({p.peaks_[b]} \cup { PeakUnit * Sqrt(p.spectrum[k].intensity) :
                        k \in { j \in Retained(p) : p.spectrum[j].mz = b } })]
\* lines 152-155
largest_mz(p) ==
  MaxOf({0} \cup { p.spectrum[k].mz :
                     k \in { j \in Retained(p) : p.spectrum[j].intensity > 0 } })
\* lines 157-160
highest_intensity(p) ==
  MaxOf({0} \cup { PeakUnit * Sqrt(p.spectrum[k].intensity) : k \in Retained(p) })

\* a slip: one region, and its maximum becomes 100
NormalizeToHundred(peaks, highest, largest) ==
  [b \in DOMAIN peaks |->
     IF highest = 0 THEN 0 ELSE (100 * peaks[b]) \div (highest \div PeakUnit)]
\* a slip: the cut-off is 5% of the region's own maximum
NormalizeRegionCutoff(peaks, highest, largest) ==
  LET region_size == largest \div NUM_SPECTRUM_REGIONS + 1
      touched(b) == b < NUM_SPECTRUM_REGIONS * region_size
      region(b) == { c \in DOMAIN peaks : c \div region_size = b \div region_size }
      own_highest(b) == MaxOf({0} \cup { peaks[c] : c \in region(b) })
      cut == [b \in DOMAIN peaks |->
                IF touched(b) /\ 20 * peaks[b] < own_highest(b) THEN 0 ELSE peaks[b]]
  IN  [b \in DOMAIN peaks |->
         IF touched(b) /\ own_highest(b) # 0 /\ cut[b] # 0
           THEN (50 * cut[b]) \div (own_highest(b) \div PeakUnit)
           ELSE cut[b]]
\* lines 166-192: in each of the NUM_SPECTRUM_REGIONS regions, bins at or
\* below 5% of the highest intensity are zeroed and the others are scaled so
\* that the region's maximum becomes 50
NormalizeEachRegion(peaks, highest, largest) ==
  LET region_size == largest \div NUM_SPECTRUM_REGIONS + 1
      touched(b) == b < NUM_SPECTRUM_REGIONS * region_size
      \* peaks_[index] <= highest_intensity * 0.05
      cut == [b \in DOMAIN peaks |->
                IF touched(b) /\ 20 * peaks[b] <= highest THEN 0 ELSE peaks[b]]
      region(b) == { c \in DOMAIN peaks : c \div region_size = b \div region_size }
      region_highest(b) == MaxOf({0} \cup { cut[c] : c \in region(b) })
  IN  [b \in DOMAIN peaks |->
         IF touched(b) /\ region_highest(b) # 0 /\ cut[b] # 0
           \* peaks_[index] *= 50.0 / highest_intensity
           THEN (50 * cut[b]) \div (region_highest(b) \div PeakUnit)
           ELSE cut[b]]

\* lines 46-49: the running total, observed[lo] + ... + observed[hi], summed
\* by halves
RECURSIVE RangeSum(_, _, _)
RangeSum(observed, lo, hi) ==
  IF lo > hi THEN 0
  ELSE IF lo = hi THEN observed[lo]
  ELSE LET mid == (lo + hi) \div 2
       IN  RangeSum(observed, lo, mid) + RangeSum(observed, mid + 1, hi)

\* lines 46-50: partial_sums[i] is the sum of observed[0 .. i], and
\* partial_sums[end] the total
partial_sums(observed, end) ==
  [k \in 0 .. end |->
     IF k = end THEN RangeSum(observed, 0, end - 1)
     ELSE RangeSum(observed, 0, k)]

\* a slip: the average is taken over the bins actually summed
SubtractBackgroundEdgeAverage(observed, end) ==
  [i \in DOMAIN observed |->
     IF i < end
       THEN LET lo == MaxOf({0, i - MAX_XCORR_OFFSET})
                hi == MinOf({end - 1, i + MAX_XCORR_OFFSET})
                others == (lo .. hi) \ {i}
                total == partial_sums([k \in 0 .. hi |-> IF k \in others THEN observed[k] ELSE 0], hi + 1)[hi + 1]
            IN  IF others = {} THEN observed[i]
                ELSE observed[i] - total \div Cardinality(others)
       ELSE observed[i]]
\* lines 39-57: SubtractBackground; multiplier = 1.0 / (MAX_XCORR_OFFSET * 2)
SubtractBackground(observed, end) ==
  LET sums == partial_sums(observed, end)
  IN  [i \in DOMAIN observed |->
         IF i < end
           THEN LET right_index == MinOf({end, i + MAX_XCORR_OFFSET})
                    left_index == MaxOf({0, i - MAX_XCORR_OFFSET - 1})
                IN  observed[i] -
                      (sums[right_index] - sums[left_index] - observed[i])
                         \div (MAX_XCORR_OFFSET * 2)
           ELSE observed[i]]

\* lines 220-224: round_to_int, half away from zero, of the fraction n / d
round_to_int(n, d) ==
  IF n >= 0 THEN (2 * n + d) \div (2 * d)
  ELSE 0 - ((2 * (0 - n) + d) \div (2 * d))

PeakTypes == {"PeakMain", "LossPeak", "FlankingPeak", "PrimaryPeak",
              "PeakCombinedB1", "PeakCombinedY1", "PeakCombinedB2", "PeakCombinedY2"}
\* the bins of cache_: MaxBin::Global().CacheBinEnd() of them
CacheBins == 0 .. MaxBinEnd
\* what the previous spectrum left in cache_
StaleCache == [t \in PeakTypes |-> [b \in CacheBins |-> 7]]

\* lines 226-230: Peak(PeakMain, i) = round_to_int(peaks_[i]*50000)
MakeInteger(cache, peaks, background_bin_end) ==
  [cache EXCEPT !["PeakMain"] =
     [b \in CacheBins |->
        IF b < background_bin_end
          \* peaks_[b] / 6000 * 50000
          THEN round_to_int(peaks[b] * 25, 3)
          ELSE cache["PeakMain"][b]]]

\* lines 234-279: ComputeCache
ComputeCache(cache, background_bin_end, cache_bin_end, FP, NL) ==
  LET \* lines 235-248, and lines 250-252 (everything from bin
      \* BackgroundBinEnd on is zeroed)
      base(mult) ==
        [b \in CacheBins |->
           IF b < background_bin_end THEN mult * cache["PeakMain"][b] ELSE 0]
      main == [b \in CacheBins |->
                 IF b < background_bin_end THEN cache["PeakMain"][b] ELSE 0]
      \* y = x+x, z = y+y+x, z+z
      loss == base(2)
      flanking == base(5)
      primary == base(10)
      \* lines 254-264
      flanks(i) ==
        primary[i]
          + (IF FP /\ i > 0 THEN flanking[i - 1] ELSE 0)
          + (IF FP /\ i < cache_bin_end - 1 THEN flanking[i + 1] ELSE 0)
      \* lines 265-273
      Y1(i) ==
        flanks(i)
          + (IF NL /\ i > BIN_NH3 THEN loss[i - BIN_NH3] ELSE 0)
          + (IF NL /\ i > BIN_H2O THEN loss[i - BIN_H2O] ELSE 0)
      combined(W(_)) ==
        [b \in CacheBins |-> IF b < cache_bin_end THEN W(b) ELSE 0]
  IN  [t \in PeakTypes |->
         CASE t = "PeakMain" -> main
           [] t = "LossPeak" -> loss
           [] t = "FlankingPeak" -> flanking
           [] t = "PrimaryPeak" -> primary
           [] t \in {"PeakCombinedY1", "PeakCombinedB1"} -> combined(Y1)
           [] t \in {"PeakCombinedY2", "PeakCombinedB2"} -> combined(flanks)]

\* pre: the spectrum and the preprocessor's state
\*   filtered   index of the peak the precursor removal or the deisotoping
\*              drops (0: none)
\*   cut_off    first bin at or beyond experimental_mass_cut_off
\*   oob_read   TRUE once a peak was read at an index outside 0 .. Size-1
InitPre ==
  \E spectrum \in Spectra, cut \in {19, MaxBinEnd} :
    \E filtered \in 0 .. Len(spectrum) :
      pre = [at |-> "start",
             spectrum |-> spectrum,
             filtered |-> filtered,
             cut_off |-> cut,
             skip_preprocessing |-> BOOLEAN,
             FP_ |-> BOOLEAN,
             NL_ |-> BOOLEAN,
             background_bin_end |-> 0,
             cache_bin_end |-> 0,
             peaks_ |-> StalePeaks,
             cache_ |-> StaleCache,
             largest_mz |-> 0,
             highest_intensity |-> 0,
             num_range_skipped |-> 0,
             num_filtered |-> 0,
             num_retained |-> 0,
             oob_read |-> FALSE]

\* lines 70-79.  Line 72 reads M_Z(Size()-1): with no peak that is index -1,
\* outside the peak array, and what the read returns (or whether it faults)
\* is not defined; the bin ends InitBin derives from it are then arbitrary.
\* For a spectrum with peaks the explored bin ends are the global ones.
PreStart ==
  /\ pre.at = "start"
  /\ \E outcome \in IF Len(pre.spectrum) = 0 THEN {"segv", "garbage", "ok"} ELSE {"ok"} :
       \E bin_end \in IF outcome = "garbage" THEN {0} ELSE {MaxBinEnd} :
         pre' = [pre EXCEPT
                   !.at = IF outcome = "segv" THEN "crashed" ELSE "fill",
                   !.oob_read = (Len(pre.spectrum) = 0),
                   !.background_bin_end = bin_end,
                   !.cache_bin_end = bin_end + 1,
                   !.peaks_ = ZeroPeaks]
  /\ UNCHANGED <<searchVars, tcfg, iso, win, dp>>

\* lines 81-164: the bucket loop of skip-preprocessing, or the fill loop
PreFill ==
  /\ pre.at = "fill"
  /\ \E skip \in pre.skip_preprocessing :
       IF skip
         THEN pre' = [pre EXCEPT !.at = "subtract",
                                 !.skip_preprocessing = {skip},
                                 !.peaks_ = BucketRaw(pre)]
         ELSE pre' = [pre EXCEPT
                        !.at = "normalize",
                        !.skip_preprocessing = {skip},
                        !.peaks_ = FillPeaks(pre),
                        !.largest_mz = largest_mz(pre),
                        !.highest_intensity = highest_intensity(pre),
                        !.num_range_skipped =
                           Cardinality({ k \in 1 .. Len(pre.spectrum) :
                                           Beyond(pre, pre.spectrum[k]) }),
                        !.num_retained = Cardinality(Retained(pre)),
                        !.num_filtered =
                           Len(pre.spectrum) - Cardinality(Retained(pre))
                             - Cardinality({ k \in 1 .. Len(pre.spectrum) :
                                               Beyond(pre, pre.spectrum[k]) })]
  /\ UNCHANGED <<searchVars, tcfg, iso, win, dp>>

\* lines 166-192
PreNormalize ==
  /\ pre.at = "normalize"
  /\ pre' = [pre EXCEPT
               !.at = "subtract",
               !.peaks_ = NormalizeEachRegion(pre.peaks_, pre.highest_intensity,
                                              pre.largest_mz)]
  /\ UNCHANGED <<searchVars, tcfg, iso, win, dp>>

\* line 206, in both modes
PreSubtract ==
  /\ pre.at = "subtract"
  /\ pre' = [pre EXCEPT
               !.at = "integer",
               !.peaks_ = SubtractBackground(pre.peaks_, pre.background_bin_end)]
  /\ UNCHANGED <<searchVars, tcfg, iso, win, dp>>

\* line 212
PreMakeInteger ==
  /\ pre.at = "integer"
  /\ pre' = [pre EXCEPT
               !.at = "cache",
               !.cache_ = MakeInteger(pre.cache_, pre.peaks_, pre.background_bin_end)]
  /\ UNCHANGED <<searchVars, tcfg, iso, win, dp>>

\* line 213; FP_ and NL_ are flags of the ObservedPeakSet
PreComputeCache ==
  /\ pre.at = "cache"
  /\ \E FP \in pre.FP_, NL \in pre.NL_ :
       pre' = [pre EXCEPT
                 !.at = "done",
                 !.FP_ = {FP},
                 !.NL_ = {NL},
                 !.cache_ = ComputeCache(pre.cache_, pre.background_bin_end,
                                         pre.cache_bin_end, FP, NL)]
  /\ UNCHANGED <<searchVars, tcfg, iso, win, dp>>

NextPre ==
  \/ PreStart
  \/ PreFill
  \/ PreNormalize
  \/ PreSubtract
  \/ PreMakeInteger
  \/ PreComputeCache
InitPreRun == InitPre /\ IdleSearch /\ tcfg = <<>> /\ iso = <<>> /\ win = <<>> /\ dp = <<>>
SpecPre == InitPreRun /\ [][NextPre]_vars

(* ------------------------------------------------------------------ *)
(* Properties of the preprocessor                                       *)
(* ------------------------------------------------------------------ *)
\* C15 as stated: after PreprocessSpectrum every value stored in the Peak
\* Cache, for every peak type and every bin, is greater than or equal to zero.
C15_CacheNonNegative ==
  pre.at = "done" =>
    \A t \in PeakTypes : \A b \in CacheBins : pre.cache_[t][b] >= 0

\* C15, amended: the bins are non-negative before the background subtraction
\* (at most 50 after region normalization); in the finished cache the loss,
\* flanking and primary values of a bin have the sign of its base value,
\* which is negative where the window mean exceeds the bin.
C15_NonNegativeBeforeSubtraction ==
  /\ pre.at = "subtract" =>
       \A b \in Bins :
         /\ pre.peaks_[b] >= 0
         /\ (pre.skip_preprocessing = {FALSE} => pre.peaks_[b] <= 50 * PeakUnit)
  /\ pre.at = "done" =>
       \A b \in CacheBins : \A t \in {"LossPeak", "FlankingPeak", "PrimaryPeak"} :
         /\ (pre.cache_["PeakMain"][b] >= 0 <=> pre.cache_[t][b] >= 0)
         /\ (pre.cache_["PeakMain"][b] = 0 <=> pre.cache_[t][b] = 0)

\* C15 witness: a fully preprocessed spectrum whose cache has a positive
\* primary value in one bin and a negative base value in another
C15_Witness ==
  /\ pre.at = "done"
  /\ pre.skip_preprocessing = {FALSE}
  /\ \E b \in Bins : pre.cache_["PrimaryPeak"][b] > 0
  /\ \E b \in Bins : pre.cache_["PeakMain"][b] < 0

\* C16: preprocessing a spectrum with no peaks completes without a fatal
\* error and without reading a peak at an index outside 0 .. Size-1, and
\* leaves every bin of the cache equal to zero.
C16_EmptySpectrumZeroCache ==
  Len(pre.spectrum) = 0 =>
    /\ ~pre.oob_read
    /\ pre.at # "crashed"
    /\ pre.at = "done" =>
         \A t \in PeakTypes : \A b \in CacheBins : pre.cache_[t][b] = 0

\* C27 as stated: in each region a bin is zeroed exactly when its value is
\* below 5% of the maximum of that same region, and after rescaling every
\* region that still has a non-zero bin has maximum 50.
C27_CutoffIsRegional ==
  [][ (pre.at = "normalize" /\ pre'.at = "subtract") =>
        LET region_size == pre.largest_mz \div NUM_SPECTRUM_REGIONS + 1
            region(b) == { c \in Bins : c \div region_size = b \div region_size }
            before(b) == MaxOf({ pre.peaks_[c] : c \in region(b) })
            after(b) == MaxOf({ pre'.peaks_[c] : c \in region(b) })
        IN  \A b \in Bins :
              b < NUM_SPECTRUM_REGIONS * region_size =>
                /\ (pre'.peaks_[b] = 0 /\ pre.peaks_[b] # 0) <=>
                     (pre.peaks_[b] # 0 /\ 20 * pre.peaks_[b] < before(b))
                /\ after(b) # 0 => after(b) = 50 * PeakUnit ]_vars

\* C27, amended: a bin is zeroed exactly when its value is at or below 5% of
\* the highest value of the whole spectrum (highest_intensity of the fill
\* loop), whatever its region; after rescaling every region that still has a
\* non-zero bin has maximum 50.
C27_CutoffIsGlobal ==
  [][ (pre.at = "normalize" /\ pre'.at = "subtract") =>
        LET region_size == pre.largest_mz \div NUM_SPECTRUM_REGIONS + 1
            region(b) == { c \in Bins : c \div region_size = b \div region_size }
            after(b) == MaxOf({ pre'.peaks_[c] : c \in region(b) })
        IN  \A b \in Bins :
              b < NUM_SPECTRUM_REGIONS * region_size =>
                /\ pre'.peaks_[b] = 0 <=> 20 * pre.peaks_[b] <= pre.highest_intensity
                /\ after(b) # 0 => after(b) = 50 * PeakUnit ]_vars

\* C27 witness: normalization is done; the only peak of bin 0 was retained
\* and was its region's maximum, yet the bin is 0, while bin 19 holds 50
C27_Witness ==
  /\ pre.at = "subtract"
  /\ pre.skip_preprocessing = {FALSE}
  /\ \E k \in Retained(pre) : pre.spectrum[k].mz = 0
  /\ \A k \in Retained(pre) : pre.spectrum[k].mz # 1
  /\ pre.peaks_[0] = 0
  /\ pre.peaks_[19] = 50 * PeakUnit

\* C18 as stated: with skip-preprocessing on, the base cache value of each
\* bin is the quantized largest raw intensity of the spectrum's peaks in that
\* bin, 0 for a bin with no peak: nothing filtered, no square root, no
\* normalization, no background subtraction.
C18_SkipPreprocessingBucketsRawMaxima ==
  (pre.at = "done" /\ pre.skip_preprocessing = {TRUE}) =>
    \A b \in Bins :
      LET raw == MaxOf({0} \cup { pre.spectrum[k].intensity :
                   k \in { j \in 1 .. Len(pre.spectrum) : pre.spectrum[j].mz = b } })
      IN  pre.cache_["PeakMain"][b] = round_to_int(raw * PeakUnit * 25, 3)

(* ------------------------------------------------------------------ *)
(* SubtractBackground on synthetic arrays (SpecBg)                      *)
(* ------------------------------------------------------------------ *)
\* longest synthetic array explored: longer than two half-windows
MaxUniformLen == 160
\* the intensities of the synthetic arrays
UniformValues == {0, 1, 50}

\* pre, in this specification: an array whose bins all hold the same
\* intensity, before and after SubtractBackground
InitBg ==
  \E n \in 0 .. MaxUniformLen, c \in UniformValues :
    pre = [at |-> "bgStart", end |-> n, value |-> c,
           observed |-> [i \in 0 .. (n - 1) |-> c * PeakUnit]]

\* SubtractBackground(observed, end)
SubtractUniform ==
  /\ pre.at = "bgStart"
  /\ pre' = [pre EXCEPT !.at = "bgDone",
                        !.observed = SubtractBackground(pre.observed, pre.end)]
  /\ UNCHANGED <<searchVars, tcfg, iso, win, dp>>

NextBg == SubtractUniform
InitBgRun == InitBg /\ IdleSearch /\ tcfg = <<>> /\ iso = <<>> /\ win = <<>> /\ dp = <<>>
SpecBg == InitBgRun /\ [][NextBg]_vars

\* C17 as stated: for an array of any length whose bins all hold the same
\* intensity, SubtractBackground leaves 0 in every bin, the bins within one
\* half-window of either end included.
C17_UniformArrayAllZero ==
  pre.at = "bgDone" => \A i \in 0 .. (pre.end - 1) : pre.observed[i] = 0

\* C17, amended: the bins that are left at 0 are those with a full window,
\* bins MAX_XCORR_OFFSET+1 .. end-MAX_XCORR_OFFSET-1; every other bin of an
\* array of positive intensity stays positive.
C17_UniformArrayZeroInside ==
  pre.at = "bgDone" =>
    \A i \in 0 .. (pre.end - 1) :
      IF pre.value = 0 THEN pre.observed[i] = 0
      ELSE /\ pre.observed[i] >= 0
           /\ pre.observed[i] = 0 <=>
                (i >= MAX_XCORR_OFFSET + 1 /\ i <= pre.end - MAX_XCORR_OFFSET - 1)

\* C17 witness: an array long enough to have bins with a full window, whose
\* bin 76 ended at 0 while bin 75 and the last bin did not
C17_Witness ==
  /\ pre.at = "bgDone"
  /\ pre.value > 0
  /\ pre.end > 2 * MAX_XCORR_OFFSET + 2
  /\ pre.observed[MAX_XCORR_OFFSET + 1] = 0
  /\ pre.observed[MAX_XCORR_OFFSET] > 0
  /\ pre.observed[pre.end - 1] > 0

\* C26 as stated: SubtractBackground lowers bin i by 1/(2W) times the sum of
\* the pre-pass values of the bins j # i with i-W <= j <= i+W and
\* 0 <= j < end, W = MAX_XCORR_OFFSET; bin 0 is in the window of every bin
\* 1 .. W.  On an array whose bins all hold value, that sum is value times
\* the number of such bins.
C26_SymmetricWindow ==
  pre.at = "bgDone" =>
    \A i \in 0 .. (pre.end - 1) :
      LET window == { j \in 0 .. (pre.end - 1) :
                        j # i /\ j >= i - MAX_XCORR_OFFSET /\ j <= i + MAX_XCORR_OFFSET }
      IN  pre.observed[i] =
            pre.value * PeakUnit
              - (Cardinality(window) * pre.value * PeakUnit) \div (2 * MAX_XCORR_OFFSET)

(* ------------------------------------------------------------------ *)
(* Scoring a batch of candidates against the cache (SpecScore)          *)
(* ------------------------------------------------------------------ *)
\* longest active queue explored
MaxQueue == 2
\* the cache positions (i->Code()) and the values the cache holds
Codes == 0 .. 2
CacheValues == {0 - 3, 0, 5}
\* the theoretical peak arrays of the candidates: some are reorderings of
\* one another, one is empty, one names a position twice
TheoreticalPeakArrs ==
  {<<>>, <<0>>, <<0, 1>>, <<1, 0>>, <<1, 1, 2>>, <<2, 1, 1>>}

\* a slip: each term is weighted by its place in the array
RECURSIVE DotProdWeighted(_, _)
DotProdWeighted(cache, theoretical) ==
  IF theoretical = <<>> THEN 0
  ELSE DotProdWeighted(cache, SubSeq(theoretical, 1, Len(theoretical) - 1))
         + Len(theoretical) * cache[theoretical[Len(theoretical)]]

\* ObservedPeakSet::DotProd: total += cache_[i->Code()] from begin() to end()
RECURSIVE DotProd(_, _)
DotProd(cache, theoretical) ==
  IF theoretical = <<>> THEN 0
  ELSE DotProd(cache, SubSeq(theoretical, 1, Len(theoretical) - 1))
         + cache[theoretical[Len(theoretical)]]

\* pre, in this specification: the cache, as it was handed over (given) and
\* as it is (cache_), the active queue, the counter register and the results
\* buffer of collectScoresCompiled
\* and, of the caller, candidatePeptideStatus (which queued peptides are
\* in-window candidates; at least one is, line 515) and the match list
InitScore ==
  \E cache \in [Codes -> CacheValues],
     queue \in SeqsUpTo(TheoreticalPeakArrs, MaxQueue) :
    \E status \in [1 .. Len(queue) -> BOOLEAN] :
      /\ (queue # <<>> => \E k \in 1 .. Len(queue) : status[k])
      /\ pre = [at |-> "scoreStart", given |-> cache, cache_ |-> cache,
                queue |-> queue, counter |-> 0, results |-> <<>>, size |-> 0,
                candidatePeptideStatus |-> status, match_arr |-> <<>>]

\* lines 857-859: nothing to score
ScoreNothing ==
  /\ pre.at = "scoreStart"
  /\ pre.queue = <<>>
  /\ pre' = [pre EXCEPT !.at = "scoreDone"]
  /\ UNCHANGED <<searchVars, tcfg, iso, win, dp>>

\* lines 862-953: the registers are loaded (the counter gets queue_size) and
\* the first program is called
ScoreCall ==
  /\ pre.at = "scoreStart"
  /\ pre.queue # <<>>
  /\ pre' = [pre EXCEPT !.at = "scoring", !.counter = Len(pre.queue)]
  /\ UNCHANGED <<searchVars, tcfg, iso, win, dp>>

\* one program: the dot product of the cache with its candidate, dumped
\* together with the counter; the cache is read through a const int*
ScoreProgram ==
  /\ pre.at = "scoring"
  /\ pre.counter > 0
  /\ LET k == Len(pre.queue) - pre.counter + 1
     IN  pre' = [pre EXCEPT
                   !.results = Append(@, <<DotProd(pre.cache_, pre.queue[k]), pre.counter>>),
                   !.counter = @ - 1]
  /\ UNCHANGED <<searchVars, tcfg, iso, win, dp>>

\* line 958: match_arr->set_size(queue_size)
ScoreSetSize ==
  /\ pre.at = "scoring"
  /\ pre.counter = 0
  /\ pre' = [pre EXCEPT !.at = "scoreDone", !.size = Len(pre.queue)]
  /\ UNCHANGED <<searchVars, tcfg, iso, win, dp>>

\* a slip: the counter is taken as a position from the front
peptide_idxFromFront(size, counter) == counter - 1
\* line 549: int peptide_idx = candidatePeptideStatusSize - (it->second)
peptide_idx(size, counter) == size - counter

\* lines 546-557: the pairs of the in-window candidates are copied to
\* match_arr, in the order of the results; an entry holds the score (which
\* line 552 divides by XCORR_SCALING) and the counter as rank
CopyMatches ==
  /\ pre.at = "scoreDone"
  /\ pre.queue # <<>>
  /\ LET flagged(r) == pre.candidatePeptideStatus[peptide_idx(pre.size, r[2]) + 1]
     IN  pre' = [pre EXCEPT !.at = "copied",
                            !.match_arr = SelectSeq(pre.results, flagged)]
  /\ UNCHANGED <<searchVars, tcfg, iso, win, dp>>

NextScore == ScoreNothing \/ ScoreCall \/ ScoreProgram \/ ScoreSetSize \/ CopyMatches
InitScoreRun == InitScore /\ IdleSearch /\ tcfg = <<>> /\ iso = <<>> /\ win = <<>> /\ dp = <<>>
SpecScore == InitScoreRun /\ [][NextScore]_vars

\* C19: the score of a candidate is the sum of the cache values at its
\* theoretical peak positions (each position counted as often as the
\* candidate names it), so it is the same for every order of the positions
\* and whatever was scored before or after it in the batch; scoring never
\* modifies the cache.
C19_ScoreIsOrderFreeSum ==
  /\ pre.cache_ = pre.given
  /\ \A k \in 1 .. Len(pre.results) :
       LET cand == pre.queue[k]
           times(c) == Cardinality({ j \in 1 .. Len(cand) : cand[j] = c })
       IN  /\ pre.results[k][1] =
                times(0) * pre.given[0] + times(1) * pre.given[1] + times(2) * pre.given[2]
           /\ pre.results[k][2] = Len(pre.queue) - k + 1
  /\ \A k, m \in 1 .. Len(pre.results) :
       (\A c \in Codes :
           Cardinality({ j \in 1 .. Len(pre.queue[k]) : pre.queue[k][j] = c })
             = Cardinality({ j \in 1 .. Len(pre.queue[m]) : pre.queue[m][j] = c }))
         => pre.results[k][1] = pre.results[m][1]

\* C19 witness: a finished batch of two candidates that name the same
\* positions in different orders, over a cache whose values at those
\* positions differ, both scored
C19_Witness ==
  /\ pre.at = "copied"
  /\ pre.queue = <<(<<1, 1, 2>>), (<<2, 1, 1>>)>>
  /\ pre.given[1] # pre.given[2]
  /\ pre.size = 2
  /\ Len(pre.results) = 2
  /\ pre.results[1][1] = pre.results[2][1]
  /\ pre.results[1][1] # 0

\* C29: after a batch of q queued candidates is scored the results hold q
\* (score, counter) pairs; the pair with counter c was produced by the
\* peptide at queue position q - c, a position of 0 .. q-1 used once; and
\* exactly the pairs of the in-window candidates are copied to the match
\* list, which so has nCandPeptide entries.
C29_CountersNamePositions ==
  LET q == Len(pre.queue)
      position(r) == q - r[2]
      nCandPeptide == Cardinality({ k \in 1 .. q : pre.candidatePeptideStatus[k] })
  IN  /\ pre.at \in {"scoreDone", "copied"} =>
           /\ Len(pre.results) = q
           /\ pre.size = q
           /\ \A k \in 1 .. q :
                /\ position(pre.results[k]) \in 0 .. (q - 1)
                /\ pre.results[k][1] =
                     DotProd(pre.given, pre.queue[position(pre.results[k]) + 1])
                /\ \A m \in 1 .. q :
                     position(pre.results[k]) = position(pre.results[m]) => k = m
      /\ pre.at = "copied" =>
           /\ Len(pre.match_arr) = nCandPeptide
           /\ \A k \in 1 .. q :
                pre.candidatePeptideStatus[position(pre.results[k]) + 1] <=>
                  (\E m \in 1 .. Len(pre.match_arr) : pre.match_arr[m] = pre.results[k])
           /\ \A m, n \in 1 .. Len(pre.match_arr) :
                pre.match_arr[m][2] = pre.match_arr[n][2] => m = n

\* C29 witness: a batch of two was scored and only the pair of the second
\* peptide, the in-window one, was copied
C29_Witness ==
  /\ pre.at = "copied"
  /\ Len(pre.queue) = 2
  /\ pre.candidatePeptideStatus = <<FALSE, TRUE>>
  /\ pre.queue[1] # pre.queue[2]
  /\ pre.results[1][1] # pre.results[2][1]
  /\ pre.match_arr = <<pre.results[2]>>
  /\ pre.match_arr[1][2] = 1

(* ------------------------------------------------------------------ *)
(* calcScoreCount (SpecCount)                                           *)
(* ------------------------------------------------------------------ *)
\* largest colLast explored: the peptide's residues sum to colLast - colStart
MaxColLast == 8
\* MassConstants::mass2bin(MassConstants::mono_h)
BinOfH == 1
\* what line 1246 takes off pepMassInt: the bins of MassConstants::mono_oh
BinOfOH == 17
\* length of the evidence vector (maxPrecurMass, line 573)
numelEvidenceObs == 30
\* the bins where the explored evidence vectors differ from their
\* background, the values there, and the backgrounds
EvidenceBackgrounds == {0, 0 - 1}
EvidenceBins == {3, 5}
EvidenceValues == {0 - 1, 0, 2}
\* the integer amino-acid masses, ascending, and the frequencies explored
AminoAcidMasses == <<2, 3>>
FreqValues == {0, 2}

\* the quantities of lines 1222-1250, for the arguments held in p
nDeltaMass(p) == Len(p.aaMass)
maxDeltaMass(p) == p.aaMass[Len(p.aaMass)]
bottomRowBuffer(p) == p.maxEvidence + 1
topRowBuffer(p) == 0 - p.minEvidence
colStart == BinOfH
scoreOffsetObs(p) == bottomRowBuffer(p) - p.minScore
nRow(p) == bottomRowBuffer(p) - p.minScore + 1 + p.maxScore + topRowBuffer(p)
nCol(p) == maxDeltaMass(p) + p.pepMassInt
rowFirst(p) == bottomRowBuffer(p)
rowLast(p) == rowFirst(p) - p.minScore + p.maxScore
colFirst == colStart + BinOfH
colLast(p) == p.pepMassInt - BinOfOH
initCountRow(p) == bottomRowBuffer(p) - p.minScore
initCountCol(p) == maxDeltaMass(p) + colStart

\* lines 1252-1258: the zeroed array
ZeroArray(p) == [row \in 0 .. (nRow(p) - 1) |-> [col \in 0 .. (nCol(p) - 1) |-> 0]]

\* lines 1265-1277: the counts of the first (N-terminal) amino acid; the
\* initial count of 1 is set back to 0 afterwards
FirstAminoAcid(p) ==
  [row \in 0 .. (nRow(p) - 1) |-> [col \in 0 .. (nCol(p) - 1) |->
     LET hits(de) == /\ row = initCountRow(p) + p.evidenceObs[p.aaMass[de] + colStart]
                     /\ col = initCountCol(p) + p.aaMass[de]
                     /\ col <= maxDeltaMass(p) + colLast(p)
         term == [de \in 1 .. nDeltaMass(p) |-> IF hits(de) THEN 1 * p.aaFreqN[de] ELSE 0]
     IN  IF row = initCountRow(p) /\ col = initCountCol(p) THEN 0
         ELSE RangeSum(term, 1, nDeltaMass(p))]]

\* lines 1279-1292, one value of ma: the column maxDeltaMass + ma
InteriorColumn(p, arr, ma) ==
  LET col == maxDeltaMass(p) + ma
      evidence == p.evidenceObs[ma]
  IN  [row \in 0 .. (nRow(p) - 1) |->
         IF row >= rowFirst(p) /\ row <= rowLast(p)
           THEN LET term == [de \in 1 .. nDeltaMass(p) |->
                              arr[row - evidence][col - p.aaMass[de]] * p.aaFreqI[de]]
                IN  [arr[row] EXCEPT ![col] = @ + RangeSum(term, 1, nDeltaMass(p))]
           ELSE arr[row]]

\* lines 1279-1292: ma from colFirst up to colLast - 1
RECURSIVE InteriorAminoAcids(_, _, _)
InteriorAminoAcids(p, arr, ma) ==
  IF ma >= colLast(p) THEN arr
  ELSE InteriorAminoAcids(p, InteriorColumn(p, arr, ma), ma + 1)

\* lines 1294-1306: the last (C-terminal) amino acid, no evidence added
LastAminoAcid(p, arr) ==
  LET col == maxDeltaMass(p) + colLast(p)
  IN  [row \in 0 .. (nRow(p) - 1) |->
         IF row >= rowFirst(p) /\ row <= rowLast(p)
           THEN LET term == [de \in 1 .. nDeltaMass(p) |->
                              arr[row][col - p.aaMass[de]] * p.aaFreqC[de]]
                IN  [arr[row] EXCEPT ![col] = RangeSum(term, 1, nDeltaMass(p))]
           ELSE arr[row]]

\* lines 1310-1317: the counts of the last column, and their total
ScoreCounts(p, arr) ==
  [row \in 0 .. (nRow(p) - 1) |-> arr[row][maxDeltaMass(p) + colLast(p)]]
TotalCount(p, arr) == RangeSum(ScoreCounts(p, arr), 0, nRow(p) - 1)

\* lines 1318-1328: pValueScoreObs[row] is
\*   exp(log(cumulative count from row up - count[row] / 2) - log(totalCount)).
\* A value is held as twice its numerator over the common divisor
\* 2 * totalCount. With totalCount = 0 every entry is
\* exp(log(0) - log(0)) = exp(-inf + inf), not a number.
PValueTable(p, arr) ==
  [row \in 0 .. (nRow(p) - 1) |->
     [nan |-> TotalCount(p, arr) = 0,
      twice |-> 2 * RangeSum(ScoreCounts(p, arr), row, nRow(p) - 1)
                  - ScoreCounts(p, arr)[row]]]

\* lines 631-644 of the caller: the evidence vector's extremes, and the score
\* bounds, the sums of its maxNResidue largest and smallest entries
EvidenceVectors ==
  { [ma \in 0 .. (numelEvidenceObs - 1) |-> IF ma \in EvidenceBins THEN f[ma] ELSE bg] :
      f \in [EvidenceBins -> EvidenceValues], bg \in EvidenceBackgrounds }
\* line 630: floor(pepMaInt / minDeltaMass)
maxNResidue(pepMaInt, aaMass) == pepMaInt \div aaMass[1]
\* lines 631-637: the sum of the k largest entries of e among the bins S
RECURSIVE SumLargest(_, _, _)
SumLargest(e, S, k) ==
  IF k = 0 \/ S = {} THEN 0
  ELSE LET top == CHOOSE i \in S : \A j \in S : e[i] >= e[j]
       IN  e[top] + SumLargest(e, S \ {top}, k - 1)
\* lines 638-640: the sum of the k smallest entries of e among the bins S
RECURSIVE SumSmallest(_, _, _)
SumSmallest(e, S, k) ==
  IF k = 0 \/ S = {} THEN 0
  ELSE LET low == CHOOSE i \in S : \A j \in S : e[i] <= e[j]
       IN  e[low] + SumSmallest(e, S \ {low}, k - 1)

\* the places calcScoreCount reads and writes, against what was allocated
RowInRange(p, row) == row >= 0 /\ row < nRow(p)
ColInRange(p, col) == col >= 0 /\ col < nCol(p)
\* lines 1252-1277
FirstInRange(p) ==
  /\ nRow(p) > 0 /\ nCol(p) > 0
  /\ RowInRange(p, initCountRow(p)) /\ ColInRange(p, initCountCol(p))
  /\ \A de \in 1 .. nDeltaMass(p) :
       /\ p.aaMass[de] + colStart \in DOMAIN p.evidenceObs
       /\ initCountCol(p) + p.aaMass[de] <= maxDeltaMass(p) + colLast(p) =>
            /\ RowInRange(p, initCountRow(p) + p.evidenceObs[p.aaMass[de] + colStart])
            /\ ColInRange(p, initCountCol(p) + p.aaMass[de])
\* lines 1279-1292
InteriorInRange(p) ==
  \A ma \in colFirst .. (colLast(p) - 1) :
    /\ ma \in DOMAIN p.evidenceObs
    /\ \A row \in rowFirst(p) .. rowLast(p) :
         /\ RowInRange(p, row) /\ ColInRange(p, maxDeltaMass(p) + ma)
         /\ RowInRange(p, row - p.evidenceObs[ma])
         /\ \A de \in 1 .. nDeltaMass(p) :
              ColInRange(p, maxDeltaMass(p) + ma - p.aaMass[de])
\* lines 1294-1306
LastInRange(p) ==
  \A row \in rowFirst(p) .. rowLast(p) :
    /\ RowInRange(p, row) /\ ColInRange(p, maxDeltaMass(p) + colLast(p))
    /\ \A de \in 1 .. nDeltaMass(p) :
         ColInRange(p, maxDeltaMass(p) + colLast(p) - p.aaMass[de])
\* lines 1310-1317
TableInRange(p) == ColInRange(p, maxDeltaMass(p) + colLast(p))

\* the theoretical b-ion bins of the candidates looked up (lines 670-674)
PeakLists == {{}, {3}, {5}, {3, 5}, {4, 6, 7}}
\* lines 676-679: scoreRefactInt, the sum of the evidence at the peak bins
scoreRefactInt(e, peaks) ==
  RangeSum([ma \in DOMAIN e |-> IF ma \in peaks THEN e[ma] ELSE 0], 0, numelEvidenceObs - 1)
\* line 680: scoreCountIdx
scoreCountIdx(p, peaks) == scoreRefactInt(p.evidenceObs, peaks) + scoreOffsetObs(p)
\* an access outside the allocated array: undefined behaviour, any outcome;
\* the call is followed no further
Undefined(p) == [p EXCEPT !.at = "undefined", !.oob = TRUE]

\* dp: the arguments of one call of calcScoreCount, its array, its result
InitCount ==
  \E e \in EvidenceVectors, colEnd \in 3 .. MaxColLast,
     fN \in [1 .. Len(AminoAcidMasses) -> FreqValues],
     fI \in [1 .. Len(AminoAcidMasses) -> FreqValues],
     fC \in [1 .. Len(AminoAcidMasses) -> FreqValues] :
    dp = [at |-> "first", evidenceObs |-> e, pepMassInt |-> colEnd + BinOfOH,
          maxEvidence |-> MaxOf({ e[ma] : ma \in DOMAIN e }),
          minEvidence |-> MinOf({ e[ma] : ma \in DOMAIN e }),
          maxScore |-> SumLargest(e, DOMAIN e,
                                  maxNResidue(colEnd + BinOfOH, AminoAcidMasses)),
          minScore |-> SumSmallest(e, DOMAIN e,
                                   maxNResidue(colEnd + BinOfOH, AminoAcidMasses)),
          aaMass |-> AminoAcidMasses, aaFreqN |-> fN, aaFreqI |-> fI, aaFreqC |-> fC,
          dynProgArray |-> <<>>, pValueScoreObs |-> <<>>, totalCount |-> 0,
          oob |-> FALSE, peaks |-> {}, scoreCountIdx |-> 0]

\* lines 1222-1277
CountFirst ==
  /\ dp.at = "first"
  /\ dp' = IF FirstInRange(dp)
             THEN [dp EXCEPT !.at = "interior", !.dynProgArray = FirstAminoAcid(dp)]
             ELSE Undefined(dp)
  /\ UNCHANGED <<searchVars, tcfg, iso, win, pre>>

\* lines 1278-1292
CountInterior ==
  /\ dp.at = "interior"
  /\ dp' = IF InteriorInRange(dp)
             THEN [dp EXCEPT !.at = "last",
                     !.dynProgArray = InteriorAminoAcids(dp, dp.dynProgArray, colFirst)]
             ELSE Undefined(dp)
  /\ UNCHANGED <<searchVars, tcfg, iso, win, pre>>

\* lines 1293-1306
CountLast ==
  /\ dp.at = "last"
  /\ dp' = IF LastInRange(dp)
             THEN [dp EXCEPT !.at = "table",
                     !.dynProgArray = LastAminoAcid(dp, dp.dynProgArray)]
             ELSE Undefined(dp)
  /\ UNCHANGED <<searchVars, tcfg, iso, win, pre>>

\* lines 1308-1337
CountTable ==
  /\ dp.at = "table"
  /\ dp' = IF TableInRange(dp)
             THEN [dp EXCEPT !.at = "returned",
                     !.totalCount = TotalCount(dp, dp.dynProgArray),
                     !.pValueScoreObs = PValueTable(dp, dp.dynProgArray)]
             ELSE Undefined(dp)
  /\ UNCHANGED <<searchVars, tcfg, iso, win, pre>>

\* the caller, lines 657-681: the p-value of one candidate is read at
\* pValueScoreObs[scoreRefactInt + scoreOffsetObs]
CountLookup ==
  /\ dp.at = "returned"
  /\ \E peaks \in PeakLists :
       /\ Cardinality(peaks) <= maxNResidue(dp.pepMassInt, dp.aaMass)
       /\ dp' = IF RowInRange(dp, scoreCountIdx(dp, peaks))
                  THEN [dp EXCEPT !.at = "looked", !.peaks = peaks,
                                  !.scoreCountIdx = scoreCountIdx(dp, peaks)]
                  ELSE [Undefined(dp) EXCEPT !.peaks = peaks,
                                             !.scoreCountIdx = scoreCountIdx(dp, peaks)]
  /\ UNCHANGED <<searchVars, tcfg, iso, win, pre>>

NextCount == CountFirst \/ CountInterior \/ CountLast \/ CountTable \/ CountLookup
InitCountRun == InitCount /\ IdleSearch /\ tcfg = <<>> /\ iso = <<>> /\ win = <<>> /\ pre = <<>>
SpecCount == InitCountRun /\ [][NextCount]_vars

\* C20 as stated: for any evidence vector, peptide mass and non-negative
\* frequency tables, the table calcScoreCount returns is non-increasing in
\* the score index: the entry of row X is >= the entry of row X + 1.
C20_PValueTableNonIncreasing ==
  dp.at = "returned" =>
    \A row \in 0 .. (nRow(dp) - 2) :
      \* >= on doubles is false as soon as one side is not a number
      /\ ~dp.pValueScoreObs[row].nan
      /\ ~dp.pValueScoreObs[row + 1].nan
      /\ dp.pValueScoreObs[row].twice >= dp.pValueScoreObs[row + 1].twice

(* ------------------------------------------------------------------ *)
(* The scan loop, continued: the candidate total                        *)
(* ------------------------------------------------------------------ *)
\* C30: total_candidate_peptides is always the sum of the candidate counts of
\* the pairs whose count has been added (the pairs past line 519 / 577), so
\* when the search returns it is the sum over all such pairs: no increment
\* is lost or applied twice, for every thread count and interleaving.
C30_TotalIsSumOfAddedCounts ==
  LET added(i) ==
        \/ pairState[i] \in {"scored", "reported", "attached"}
        \/ /\ pairState[i] = "fetched"
           /\ \E t \in Threads : Cur(t) = i /\ pc[t] \in {"unlockCand", "score"}
      count == [i \in Indices |-> IF added(i) THEN Pair(i).ncand ELSE 0]
  IN  /\ total_candidate_peptides = RangeSum(count, 0, Len(spec_charges) - 1)
      /\ pc[0] = "returned" =>
            total_candidate_peptides =
              RangeSum([i \in Indices |->
                          IF pairState[i] \in {"reported", "attached"}
                            THEN Pair(i).ncand ELSE 0], 0, Len(spec_charges) - 1)

\* C30 witness: a two-thread search has returned after each thread added the
\* candidates of a pair of its own slice
C30_Witness ==
  /\ pc[0] = "returned"
  /\ NUM_THREADS = 2
  /\ Len(spec_charges) >= 2
  /\ Pair(0).ncand > 0 /\ Pair(1).ncand > 0
  /\ pairState[0] = "reported" /\ pairState[1] = "reported"
  /\ total_candidate_peptides = Pair(0).ncand + Pair(1).ncand

\* C28 as stated: for every integer evidence vector and the table size
\* derived from it, every read and write of the table in calcScoreCount and
\* the caller's lookup at score + scoreOffset stay inside the allocated rows
\* and columns.
C28_TableAccessInRange == ~dp.oob

(* ------------------------------------------------------------------ *)
(* The score-count tables of one spec-charge pair (SpecTables)          *)
(* ------------------------------------------------------------------ *)
\* longest active queue explored in the exact p-value branch
MaxCandidates == 2
\* the integer masses (mass2bin of Peptide::Mass) of the queued peptides
PeptideMassBins == {22, 24}
\* the b-ion bins of the queued peptides (unordered_peak_list_)
BIonLists == {{3}, {5}, {3, 5}}
\* the evidence vectors CreateEvidenceVectorDiscretized may return
PairEvidenceVectors ==
  { e \in EvidenceVectors : e[0] = 0 /\ e[3] # 0 /\ e[5] # e[3] }

\* the queued peptides of the pair, in the queue's order (ascending mass),
\* each with its flag of candidatePeptideStatus
QueuedPeptides == [mass : PeptideMassBins, flagged : BOOLEAN, peaks : BIonLists]
ActiveQueues ==
  { q \in SeqsUpTo(QueuedPeptides, MaxCandidates) :
      \A k \in 1 .. (Len(q) - 1) : q[k].mass <= q[k + 1].mass }

\* lines 628-650: the arguments calcScoreCount gets for evidence vector e and
\* mass bin pepMaInt
CountArgs(e, pepMaInt) ==
  [evidenceObs |-> e, pepMassInt |-> pepMaInt,
   maxEvidence |-> MaxOf({ e[ma] : ma \in DOMAIN e }),
   minEvidence |-> MinOf({ e[ma] : ma \in DOMAIN e }),
   maxScore |-> SumLargest(e, DOMAIN e, maxNResidue(pepMaInt, AminoAcidMasses)),
   minScore |-> SumSmallest(e, DOMAIN e, maxNResidue(pepMaInt, AminoAcidMasses)),
   aaMass |-> AminoAcidMasses]

\* lines 599-608: pepMassInt, the mass bins of the flagged peptides in order
RECURSIVE FlaggedMasses(_)
FlaggedMasses(q) ==
  IF q = <<>> THEN <<>>
  ELSE LET rest == FlaggedMasses(SubSeq(q, 1, Len(q) - 1))
       IN  IF q[Len(q)].flagged THEN Append(rest, q[Len(q)].mass) ELSE rest
\* lines 609-613: std::sort, std::unique, erase
RECURSIVE UniqueAscending(_)
UniqueAscending(S) ==
  IF S = {} THEN <<>>
  ELSE LET least == CHOOSE m \in S : \A n \in S : m <= n
       IN  <<least>> \o UniqueAscending(S \ {least})
pepMassIntUnique(pepMassInt) ==
  UniqueAscending({ pepMassInt[k] : k \in 1 .. Len(pepMassInt) })

\* a slip: every candidate is looked up in the last table
pepMassIntIdxLast(unique, pepMaInt) == Len(unique)
\* lines 659-665: the first ma with pepMassIntUnique[ma] == pepMassInt[pe]
\* (here counted from 1), the first table when there is none
pepMassIntIdx(unique, pepMaInt) ==
  IF \E ma \in 1 .. Len(unique) : unique[ma] = pepMaInt
    THEN CHOOSE ma \in 1 .. Len(unique) :
           /\ unique[ma] = pepMaInt
           /\ \A lower \in 1 .. (ma - 1) : unique[lower] # pepMaInt
    ELSE 1

\* dp, in this specification: the queue, the evidence vector the spectrum
\* gives for each mass bin, and the arrays of lines 594-699.  A table is
\* named by the mass bin and the evidence vector it was built for; a
\* p-value by its table's mass bin and its index in the table.
InitTables ==
  \E queue \in ActiveQueues, evidence \in [PeptideMassBins -> PairEvidenceVectors] :
    dp = [at |-> "collect", queue |-> queue, evidenceOf |-> evidence,
          pepMassInt |-> <<>>, pepMassIntUnique |-> <<>>, tables |-> <<>>,
          peidx |-> 0, pe |-> 0, match_arr |-> <<>>]

\* lines 594-614
CollectMasses ==
  /\ dp.at = "collect"
  /\ dp' = [dp EXCEPT !.at = "build",
                      !.pepMassInt = FlaggedMasses(dp.queue),
                      !.pepMassIntUnique = pepMassIntUnique(FlaggedMasses(dp.queue))]
  /\ UNCHANGED <<searchVars, tcfg, iso, win, pre>>

\* lines 620-651, one pass: the evidence vector and the table of one mass bin
BuildTable ==
  /\ dp.at = "build"
  /\ Len(dp.tables) < Len(dp.pepMassIntUnique)
  /\ LET pepMaInt == dp.pepMassIntUnique[Len(dp.tables) + 1]
         e == dp.evidenceOf[pepMaInt]
     IN  dp' = [dp EXCEPT !.tables = Append(@,
                   [mass |-> pepMaInt, evidenceObs |-> e,
                    scoreOffsetObs |-> scoreOffsetObs(CountArgs(e, pepMaInt))])]
  /\ UNCHANGED <<searchVars, tcfg, iso, win, pre>>

\* lines 653-656
StartLookups ==
  /\ dp.at = "build"
  /\ Len(dp.tables) = Len(dp.pepMassIntUnique)
  /\ dp' = [dp EXCEPT !.at = "lookup", !.peidx = 0, !.pe = 0]
  /\ UNCHANGED <<searchVars, tcfg, iso, win, pre>>

\* lines 657-699, one pass: the p-value of a flagged peptide
LookupCandidate ==
  /\ dp.at = "lookup"
  /\ dp.peidx < Len(dp.queue)
  /\ LET peptide == dp.queue[dp.peidx + 1]
         idx == pepMassIntIdx(dp.pepMassIntUnique, dp.pepMassInt[dp.pe + 1])
         table == dp.tables[idx]
         score == scoreRefactInt(table.evidenceObs, peptide.peaks)
     IN  IF peptide.flagged
           THEN dp' = [dp EXCEPT
                         !.peidx = @ + 1, !.pe = @ + 1,
                         !.match_arr = Append(@,
                            [table |-> table.mass,
                             index |-> score + table.scoreOffsetObs,
                             xcorr_score |-> score,
                             rank |-> Len(dp.queue) - dp.peidx])]
           ELSE dp' = [dp EXCEPT !.peidx = @ + 1]
  /\ UNCHANGED <<searchVars, tcfg, iso, win, pre>>

\* lines 700-715: the arrays are freed and the matches reported
ReportMatches ==
  /\ dp.at = "lookup"
  /\ dp.peidx = Len(dp.queue)
  /\ dp' = [dp EXCEPT !.at = "reported"]
  /\ UNCHANGED <<searchVars, tcfg, iso, win, pre>>

NextTables == CollectMasses \/ BuildTable \/ StartLookups \/ LookupCandidate \/ ReportMatches
InitTablesRun == InitTables /\ IdleSearch /\ tcfg = <<>> /\ iso = <<>> /\ win = <<>> /\ pre = <<>>
SpecTables == InitTablesRun /\ [][NextTables]_vars

\* C21: in exact-p-value mode the number of score-count tables built for a
\* pair is the number of distinct integer masses among its flagged
\* candidates, and each flagged candidate's p-value is read from the table
\* built for its own integer mass, at index its integer score (against that
\* mass's evidence vector) plus that table's score offset.
C21_OneTablePerMass ==
  LET flagged == { k \in 1 .. Len(dp.queue) : dp.queue[k].flagged }
      masses == { dp.queue[k].mass : k \in flagged }
      \* the place in match_arr of the flagged peptide at queue place k
      place(k) == Cardinality({ j \in flagged : j <= k })
  IN  /\ dp.at \in {"lookup", "reported"} =>
           /\ Len(dp.tables) = Cardinality(masses)
           /\ { dp.tables[t].mass : t \in 1 .. Len(dp.tables) } = masses
      /\ dp.at = "reported" =>
           /\ Len(dp.match_arr) = Cardinality(flagged)
           /\ \A k \in flagged :
                LET own == dp.evidenceOf[dp.queue[k].mass]
                    m == dp.match_arr[place(k)]
                IN  /\ m.table = dp.queue[k].mass
                    /\ m.index = scoreRefactInt(own, dp.queue[k].peaks)
                                   + (MaxOf({ own[ma] : ma \in DOMAIN own }) + 1
                                        - SumSmallest(own, DOMAIN own,
                                            dp.queue[k].mass \div AminoAcidMasses[1]))

\* C21 witness: two flagged peptides of different mass bins, whose evidence
\* vectors differ, were each looked up in their own table, and two tables
\* were built
C21_Witness ==
  /\ dp.at = "reported"
  /\ Len(dp.queue) = 2
  /\ dp.queue[1].flagged /\ dp.queue[2].flagged
  /\ dp.queue[1].mass # dp.queue[2].mass
  /\ dp.evidenceOf[dp.queue[1].mass] # dp.evidenceOf[dp.queue[2].mass]
  /\ Len(dp.tables) = 2
  /\ dp.match_arr[1].table = dp.queue[1].mass
  /\ dp.match_arr[2].table = dp.queue[2].mass
  /\ dp.match_arr[1].index # dp.match_arr[2].index

(* ------------------------------------------------------------------ *)
(* main's spectrum files: getInputFiles and the file loop (SpecFiles)   *)
(* ------------------------------------------------------------------ *)
\* most input files explored
MaxFiles == 2

\* what will happen to one input file: it is in spectrum-records format
\* (the first ReadSpectrumRecords succeeds) or not; SpectrumRecordWriter::
\* convert succeeds or not; the converted file can be re-read or not; main's
\* loadSpectra can read the file or not
InputKinds == [isRecords : BOOLEAN, converts : BOOLEAN, rereads : BOOLEAN, loads : BOOLEAN]

\* the spectrum-records file of an input that has none yet, and the files
\* getInputFiles can name for it
NoFile == [place |-> "none", Keep |-> TRUE, deleted |-> FALSE,
           lastRead |-> "unread", searched |-> FALSE]

\* tcfg, in this specification: the input files, the store-spectra option,
\* main's position (getInputFiles, then the file loop) and, per input, its
\* spectrum-records file: where it is (the input itself, the store-spectra
\* location, a .spectrumrecords.tmp file), InputFile::Keep, whether it was
\* removed, how the last read of it ended and whether its search is over
InitFiles ==
  \E inputs \in SeqsUpTo(InputKinds, MaxFiles), store \in BOOLEAN :
    /\ inputs # <<>>
    /\ tcfg = [at |-> "getInputFiles", f |-> 1, inputs |-> inputs,
               store_spectra |-> store,
               records |-> [k \in 1 .. Len(inputs) |-> NoFile]]

\* lines 374-378: the re-read failed, FileUtils::Remove(spectrumrecords)
ReadFailed(file) == [file EXCEPT !.lastRead = "failed", !.deleted = TRUE]

\* lines 357-381, one pass of the loop of getInputFiles
GetInputFile ==
  /\ tcfg.at = "getInputFiles"
  /\ tcfg.f <= Len(tcfg.inputs)
  /\ LET in == tcfg.inputs[tcfg.f]
         Keep == tcfg.store_spectra
         made == [NoFile EXCEPT !.place = IF Keep THEN "store" ELSE "tmp", !.Keep = Keep]
         set(file) == [tcfg.records EXCEPT ![tcfg.f] = file]
     IN  IF in.isRecords
           THEN tcfg' = [tcfg EXCEPT
                           !.f = @ + 1,
                           !.records = set([NoFile EXCEPT !.place = "input",
                                                          !.lastRead = "ok"])]
         ELSE IF Keep /\ Len(tcfg.inputs) > 1
           \* lines 366-369
           THEN tcfg' = [tcfg EXCEPT !.at = "fatal"]
         ELSE IF ~in.converts
           \* lines 371-373
           THEN tcfg' = [tcfg EXCEPT !.at = "fatal"]
         ELSE IF ~in.rereads
           THEN tcfg' = [tcfg EXCEPT !.at = "fatal", !.records = set(ReadFailed(made))]
         ELSE tcfg' = [tcfg EXCEPT !.f = @ + 1,
                                   !.records = set([made EXCEPT !.lastRead = "ok"])]
  /\ UNCHANGED <<searchVars, iso, win, pre, dp>>

\* line 382 and main line 237: the list is returned, the file loop starts
StartFileLoop ==
  /\ tcfg.at = "getInputFiles"
  /\ tcfg.f > Len(tcfg.inputs)
  /\ tcfg' = [tcfg EXCEPT !.at = "load", !.f = 1]
  /\ UNCHANGED <<searchVars, iso, win, pre, dp>>

\* main lines 254-262 and loadSpectra, lines 386-398
LoadSpectra ==
  /\ tcfg.at = "load"
  /\ tcfg' = IF tcfg.inputs[tcfg.f].loads
               THEN [tcfg EXCEPT !.at = "search", !.records[tcfg.f].lastRead = "ok"]
               ELSE [tcfg EXCEPT !.at = "fatal", !.records[tcfg.f].lastRead = "failed"]
  /\ UNCHANGED <<searchVars, iso, win, pre, dp>>

\* main lines 264-288: search(...) and convertResults()
SearchFile ==
  /\ tcfg.at = "search"
  /\ tcfg' = [tcfg EXCEPT !.at = "remove", !.records[tcfg.f].searched = TRUE]
  /\ UNCHANGED <<searchVars, iso, win, pre, dp>>

\* main lines 290-294: if (!f->Keep) remove(spectra_file); then the next file
RemoveTemporary ==
  /\ tcfg.at = "remove"
  /\ tcfg' = [tcfg EXCEPT
                !.at = IF tcfg.f = Len(tcfg.inputs) THEN "done" ELSE "load",
                !.f = IF tcfg.f = Len(tcfg.inputs) THEN @ ELSE @ + 1,
                !.records[tcfg.f].deleted = ~tcfg.records[tcfg.f].Keep]
  /\ UNCHANGED <<searchVars, iso, win, pre, dp>>

NextFiles == GetInputFile \/ StartFileLoop \/ LoadSpectra \/ SearchFile \/ RemoveTemporary
InitFilesRun == InitFiles /\ IdleSearch /\ iso = <<>> /\ win = <<>> /\ pre = <<>> /\ dp = <<>>
SpecFiles == InitFilesRun /\ [][NextFiles]_vars

\* C22 as stated: a spectrum-records file is deleted only if it is a
\* temporary file created by conversion, and only after it was read
\* successfully and its search has finished; a file whose read fails is left
\* in place, and an input in spectrum-records format or a file at the
\* store-spectra location is never deleted.
C22_DeletedOnlyAfterReadAndSearch ==
  \A k \in 1 .. Len(tcfg.inputs) :
    tcfg.records[k].deleted =>
      /\ tcfg.records[k].place = "tmp"
      /\ tcfg.records[k].lastRead = "ok"
      /\ tcfg.records[k].searched


(* ------------------------------------------------------------------ *)
(* Peptide modifications (src/c/modifications.c)                        *)
(* ------------------------------------------------------------------ *)
\* longest aa_mod_list explored (SpecModList)
MaxAaMods == 3
\* most calls of peptide_mod_add_aa_mod on one peptide mod (SpecPepMod)
MaxAddCalls == 3
\* most copies one call adds (SpecPepMod)
MaxCopies == 3

\* modifications.h: MOD_POSITION_T
ModPositions == {"ANY_POSITION", "C_TERM", "N_TERM"}
\* the aa mods a list may hold: struct _aa_mod, lines 40-49, without the
\* fields the peptide mods never read.  mass_change is in whole units.
AaModKinds == [mass_change : {16}, max_per_peptide : {0, 1, 4}, position : ModPositions]
AaModLists == SeqsUpTo(AaModKinds, MaxAaMods)

\* A linked list is the sequence of its data, NULL the empty one: new_list
\* makes a list of one node, add_linked_list adds a node at the end,
\* copy_list copies, combine_lists appends the second list to the first.
\* The data of a list_of_mods are places in aa_mod_list, for the AA_MOD_T
\* pointers.
new_list(data) == <<data>>
add_linked_list(list, data) == Append(list, data)

\* lines 114-120
new_peptide_mod == [mass_change |-> 0, num_mods |-> 0, list_of_mods |-> <<>>]
\* lines 128-135
copy_peptide_mod(original) ==
  [mass_change |-> original.mass_change, num_mods |-> original.num_mods,
   list_of_mods |-> original.list_of_mods]

\* lines 649-652: the nodes the loop from added = 1 adds
RECURSIVE AddCopies(_, _, _, _)
AddCopies(list, aa_mod, added, copies) ==
  IF added < copies
    THEN AddCopies(add_linked_list(list, aa_mod), aa_mod, added + 1, copies)
    ELSE list
\* lines 635-653: aa_mod is the place of the mod in mods
peptide_mod_add_aa_mod(pep_mod, mods, aa_mod, copies) ==
  [mass_change |-> pep_mod.mass_change + mods[aa_mod].mass_change * copies,
   num_mods |-> pep_mod.num_mods + copies,
   list_of_mods |->
     AddCopies(IF pep_mod.list_of_mods = <<>>
                 THEN new_list(aa_mod)
                 ELSE add_linked_list(pep_mod.list_of_mods, aa_mod),
               aa_mod, 1, copies)]
\* lines 667-669 and 679-681
peptide_mod_get_num_aa_mods(mod) == mod.num_mods
peptide_mod_get_aa_mod_list(mod) == mod.list_of_mods

\* a slip: the last copy count is left out
CopyCountsShort(cur_mod_max) == 1 .. (cur_mod_max - 1)
\* line 208: for(copies = 1; copies < cur_mod_max + 1; copies++)
CopyCounts(cur_mod_max) == 1 .. cur_mod_max

\* lines 207-234: temp_list, for each copy count a copy of every peptide mod
\* of final_list with that many of the aa mod added
RECURSIVE temp_list(_, _, _, _)
temp_list(final_list, mods, cur, copies) ==
  IF copies \notin CopyCounts(mods[cur].max_per_peptide) THEN <<>>
  ELSE [k \in 1 .. Len(final_list) |->
          peptide_mod_add_aa_mod(copy_peptide_mod(final_list[k]), mods, cur, copies)]
       \o temp_list(final_list, mods, cur, copies + 1)

\* lines 261-262: qsort by compare_peptide_mod_num_aa_mods (lines 690-694)
\* leaves peptide mods of equal num_mods in an order of its choosing, so the
\* array is kept as, for each num_mods, the bag of its peptide mods
SeqToBag(list) ==
  [x \in { list[k] : k \in 1 .. Len(list) } |->
     Cardinality({ k \in 1 .. Len(list) : list[k] = x })]
SortedByNumMods(list) ==
  [n \in 0 .. MaxOf({ list[k].num_mods : k \in 1 .. Len(list) }) |->
     SeqToBag(SelectSeq(list, LAMBDA pm : pm.num_mods = n))]

\* iso, in this specification: generate_peptide_mod_list_TESTER's arguments
\* and locals, lines 187-193
InitModList ==
  \E mods \in AaModLists :
    iso = [at |-> "mods", aa_mod_list |-> mods, num_aa_mods |-> Len(mods),
           final_list |-> new_list(new_peptide_mod), final_counter |-> 1,
           mod_list_idx |-> 0, peptide_mod_list |-> <<>>, count |-> 0]

\* lines 194-241, one pass: the peptide mods made with the next aa mod
AddAaMod ==
  /\ iso.at = "mods"
  /\ iso.mod_list_idx < iso.num_aa_mods
  /\ LET temp == temp_list(iso.final_list, iso.aa_mod_list, iso.mod_list_idx + 1, 1)
     IN  iso' = [iso EXCEPT !.final_list = @ \o temp,
                            !.final_counter = @ + Len(temp),
                            !.mod_list_idx = @ + 1]
  /\ UNCHANGED <<searchVars, tcfg, win, pre, dp>>

\* lines 242-267: the array, sorted, and the count
ReturnModList ==
  /\ iso.at = "mods"
  /\ iso.mod_list_idx = iso.num_aa_mods
  /\ iso' = [iso EXCEPT !.at = "returned",
                        !.peptide_mod_list = SortedByNumMods(iso.final_list),
                        !.count = iso.final_counter]
  /\ UNCHANGED <<searchVars, tcfg, win, pre, dp>>

NextModList == AddAaMod \/ ReturnModList
InitModListRun == InitModList /\ IdleSearch /\ tcfg = <<>> /\ win = <<>> /\ pre = <<>> /\ dp = <<>>
SpecModList == InitModListRun /\ [][NextModList]_vars

\* the peptide mods of the returned array, and how many copies of the aa mod
\* at place i of aa_mod_list a peptide mod holds
ReturnedMods == UNION { BagToSet(iso.peptide_mod_list[n]) : n \in DOMAIN iso.peptide_mod_list }
CopiesOfMod(pm, i) == Cardinality({ k \in 1 .. Len(pm.list_of_mods) : pm.list_of_mods[k] = i })
RECURSIVE ProductOfMaxima(_)
ProductOfMaxima(mods) ==
  IF mods = <<>> THEN 1
  ELSE (mods[Len(mods)].max_per_peptide + 1) * ProductOfMaxima(SubSeq(mods, 1, Len(mods) - 1))

C23_WitnessFive ==
  /\ iso.at = "returned" /\ iso.num_aa_mods = 1
  /\ iso.aa_mod_list[1].max_per_peptide = 4 /\ iso.count = 5
C23_WitnessTen ==
  /\ iso.at = "returned" /\ iso.num_aa_mods = 2
  /\ iso.aa_mod_list[1].max_per_peptide = 4
  /\ iso.aa_mod_list[2].max_per_peptide = 1 /\ iso.count = 10
C24_TerminalModsAtMostOnce ==
  iso.at = "returned" =>
    \A pm \in ReturnedMods :
      LET at(position) == { i \in 1 .. iso.num_aa_mods :
                              /\ CopiesOfMod(pm, i) > 0
                              /\ iso.aa_mod_list[i].position = position }
      IN  /\ Cardinality(at("N_TERM")) <= 1
          /\ Cardinality(at("C_TERM")) <= 1
          /\ \A i \in 1 .. iso.num_aa_mods :
               CopiesOfMod(pm, i) <= iso.aa_mod_list[i].max_per_peptide

(* ---- peptide_mod_add_aa_mod on a fresh peptide mod (SpecPepMod) ---- *)
\* the aa mods of the tests, amod1 and amod2 of mod_setup, with mass changes
\* set
TestAaMods == << [mass_change |-> 16, max_per_peptide |-> 0, position |-> "ANY_POSITION"],
                 [mass_change |-> 80, max_per_peptide |-> 0, position |-> "ANY_POSITION"] >>

\* win, in this specification: a peptide mod from new_peptide_mod and the
\* copies the calls so far asked for
InitPepMod ==
  win = [pep_mod |-> new_peptide_mod, copies |-> <<>>]

\* one call peptide_mod_add_aa_mod(pep_mod, aa_mod, copies), copies >= 0
AddToPeptideMod ==
  /\ Len(win.copies) < MaxAddCalls
  /\ \E aa_mod \in 1 .. Len(TestAaMods), copies \in 0 .. MaxCopies :
       win' = [pep_mod |-> peptide_mod_add_aa_mod(win.pep_mod, TestAaMods, aa_mod, copies),
               copies |-> Append(win.copies, copies)]
  /\ UNCHANGED <<searchVars, tcfg, iso, pre, dp>>

NextPepMod == AddToPeptideMod
InitPepModRun == InitPepMod /\ IdleSearch /\ tcfg = <<>> /\ iso = <<>> /\ pre = <<>> /\ dp = <<>>
SpecPepMod == InitPepModRun /\ [][NextPepMod]_vars

\* C25: after any calls of peptide_mod_add_aa_mod with copies >= 0 on a
\* fresh peptide mod, the length of the list peptide_mod_get_aa_mod_list
\* returns equals peptide_mod_get_num_aa_mods, and both equal the sum of the
\* copies.
C25_ListLengthIsNumMods ==
  /\ Len(peptide_mod_get_aa_mod_list(win.pep_mod)) = peptide_mod_get_num_aa_mods(win.pep_mod)
  /\ peptide_mod_get_num_aa_mods(win.pep_mod)
       = RangeSum([k \in 1 .. Len(win.copies) |-> win.copies[k]], 1, Len(win.copies))

====
